---- MODULE Spec2Model ----
(***************************************************************************)
(* Interactive MCQ Trainer: the question/answer parsers, the matcher       *)
(* (processAndRender), the per-question interaction state machine          *)
(* (handleInteraction) and the score counters of script.js, with the       *)
(* part of the DOM they read and write.                                    *)
(*                                                                         *)
(* A JavaScript string is a sequence of one-character strings.             *)
(***************************************************************************)
EXTENDS Integers, Sequences, FiniteSets, Bags, TLC

VARIABLES
    questions,   \* state.questions
    answersMap,  \* state.answersMap
    stats,       \* state.stats
    cards,       \* the question cards in elements.questionsContainer
    inflight,    \* the bag of upload handlers suspended at an await
    uploads,     \* how many upload handlers have been started
    ev,          \* the event handled last (history, read by no action)
    call         \* a function of the program called on its own: name,
                 \* argument and result (NoCall while the session runs)

vars == <<questions, answersMap, stats, cards, inflight, uploads, ev, call>>

(***************************************************************************)
(* Characters                                                              *)
(***************************************************************************)
Digits == {"0", "1", "2", "3", "4", "5", "6", "7", "8", "9"}

UpperSeq == <<"A", "B", "C", "D", "E", "F", "G", "H", "I", "J", "K", "L", "M",
              "N", "O", "P", "Q", "R", "S", "T", "U", "V", "W", "X", "Y", "Z">>

LowerSeq == <<"a", "b", "c", "d", "e", "f", "g", "h", "i", "j", "k", "l", "m",
              "n", "o", "p", "q", "r", "s", "t", "u", "v", "w", "x", "y", "z">>

UpperLetters == {UpperSeq[i] : i \in DOMAIN UpperSeq}

LowerLetters == {LowerSeq[i] : i \in DOMAIN LowerSeq}

\* the characters \s matches, among those the model's texts use
WhiteSpace == {" ", "\t", "\n", "\r"}

\* the characters the regex dot does not match
LineTerminators == {"\n", "\r"}

\* String.prototype.toUpperCase on one character
toUpperCaseChar(c) ==
    IF c \in LowerLetters
    THEN UpperSeq[CHOOSE i \in DOMAIN LowerSeq : LowerSeq[i] = c]
    ELSE c

\* String.prototype.toUpperCase
toUpperCase(s) == [i \in DOMAIN s |-> toUpperCaseChar(s[i])]

MinOf(S) == CHOOSE x \in S : \A y \in S : x <= y

MaxOf(S) == CHOOSE x \in S : \A y \in S : x >= y

\* a greedy character-class star C* started at position i: the first position
\* at or after i whose character is not in C (Len(s) + 1 when there is none)
SkipWhile(s, i, C) ==
    LET stops == {k \in i..Len(s) : s[k] \notin C}
    IN  IF stops = {} THEN Len(s) + 1 ELSE MinOf(stops)

\* the literal lit at position i of s, under the regex flag i (case-insensitive)
MatchLit(s, i, lit) ==
    /\ i + Len(lit) - 1 <= Len(s)
    /\ \A k \in 1..Len(lit) : toUpperCaseChar(s[i + k - 1]) = toUpperCaseChar(lit[k])

\* String.prototype.trim
trim(s) ==
    LET keep == {k \in DOMAIN s : s[k] \notin WhiteSpace}
    IN  IF keep = {} THEN <<>> ELSE SubSeq(s, MinOf(keep), MaxOf(keep))

\* text.split(/\r?\n/): the pieces between the line breaks, a carriage return
\* right before a line feed being part of the break
RECURSIVE SplitLines(_)
SplitLines(text) ==
    LET breaks == {k \in DOMAIN text : text[k] = "\n"}
        b == MinOf(breaks)
        e == IF b > 1 /\ text[b - 1] = "\r" THEN b - 2 ELSE b - 1
    IN  IF breaks = {} THEN <<text>>
        ELSE <<SubSeq(text, 1, e)>> \o SplitLines(SubSeq(text, b + 1, Len(text)))

(***************************************************************************)
(* JavaScript values that are not set                                      *)
(***************************************************************************)
\* an object property that was never assigned, for the string-valued fields
Undefined == "undefined"

\* a sequence-valued field (correctKeys, userSelectedKeys, explanation) that
\* was never assigned
UndefinedSeq == <<"undefined">>

\* explicitType of a question without a type tag
Null == "null"

(***************************************************************************)
(* parseQuestionsText                                                      *)
(***************************************************************************)
TagSingle == <<"[", "S", "i", "n", "g", "l", "e", "]">>

TagMultiple == <<"[", "M", "u", "l", "t", "i", "p", "l", "e", "]">>

\* line.match(/^(?:Q)?(\d+)[\.:\s]*(?:\[(Single|Multiple)\])?\s*(.*)/i):
\* matched, and the groups 1 (id), 2 (tag, "" when the group did not take
\* part) and 3 (text)
qStartRegex(line) ==
    LET p0 == IF Len(line) >= 1 /\ toUpperCaseChar(line[1]) = "Q" THEN 2 ELSE 1
        ok == p0 <= Len(line) /\ line[p0] \in Digits
        p1 == SkipWhile(line, p0, Digits)
        p2 == SkipWhile(line, p1, {".", ":"} \cup WhiteSpace)
        tag == IF MatchLit(line, p2, TagSingle) THEN TagSingle
               ELSE IF MatchLit(line, p2, TagMultiple) THEN TagMultiple
               ELSE <<>>
        p3 == p2 + Len(tag)
        p4 == SkipWhile(line, p3, WhiteSpace)
    IN  IF ok
        THEN [matched |-> TRUE,
              id |-> SubSeq(line, p0, p1 - 1),
              tag |-> IF tag = <<>> THEN <<>>
                      ELSE SubSeq(line, p2 + 1, p3 - 2),
              text |-> SubSeq(line, p4, Len(line))]
        ELSE [matched |-> FALSE, id |-> <<>>, tag |-> <<>>, text |-> <<>>]

\* line.match(/^\s*([A-Z])[\.\)]\s*(.*)/): matched, and the groups 1 and 2
choiceRegex(line) ==
    LET p0 == SkipWhile(line, 1, WhiteSpace)
        ok == /\ p0 + 1 <= Len(line)
              /\ line[p0] \in UpperLetters
              /\ line[p0 + 1] \in {".", ")"}
        p1 == SkipWhile(line, p0 + 2, WhiteSpace)
    IN  IF ok
        THEN [matched |-> TRUE, key |-> line[p0], text |-> SubSeq(line, p1, Len(line))]
        ELSE [matched |-> FALSE, key |-> "", text |-> <<>>]

\* the name of a type tag as explicitType stores it: qMatch[2].toUpperCase()
TypeName(tag) ==
    IF toUpperCase(tag) = <<"S", "I", "N", "G", "L", "E">> THEN "SINGLE"
    ELSE IF toUpperCase(tag) = <<"M", "U", "L", "T", "I", "P", "L", "E">> THEN "MULTIPLE"
    ELSE Null

\* a question numbered by a line count that goes on from the questions
\* already loaded
NewQuestionCounted(m, i) ==
    [id |-> m.id,
     text |-> m.text,
     explicitType |-> IF m.tag # <<>> THEN TypeName(m.tag) ELSE Null,
     choices |-> <<>>,
     rawLine |-> i + Len(questions),
     status |-> Undefined,
     explanation |-> UndefinedSeq,
     correctKeys |-> UndefinedSeq,
     type |-> Undefined,
     userSelectedKeys |-> UndefinedSeq]

\* the object literal a question-start line opens; the properties that the
\* matcher and the interaction add later are not set yet
NewQuestion(m, i) ==
    [id |-> m.id,
     text |-> m.text,
     explicitType |-> IF m.tag # <<>> THEN TypeName(m.tag) ELSE Null,
     choices |-> <<>>,
     rawLine |-> i,
     status |-> Undefined,
     explanation |-> UndefinedSeq,
     correctKeys |-> UndefinedSeq,
     type |-> Undefined,
     userSelectedKeys |-> UndefinedSeq]

\* a continuation that goes to the first choice of the question
AppendToFirstChoice(q, line) ==
    [q EXCEPT !.choices[1].text = @ \o <<"\n">> \o line]

\* currentQ.choices[last].text += '\n' + line
AppendToLastChoice(q, line) ==
    LET n == Len(q.choices)
    IN  [q EXCEPT !.choices[n].text = @ \o <<"\n">> \o line]

\* currentQ.text += (currentQ.text ? '\n' : '') + line
AppendToStem(q, line) ==
    [q EXCEPT !.text = IF @ = <<>> THEN line ELSE @ \o <<"\n">> \o line]

\* one iteration of the loop over the lines; acc.currentQ is the empty
\* sequence for null and a one-element sequence for an open question
QuestionsLine(acc, raw, i) ==
    LET line == trim(raw)
        qMatch == qStartRegex(line)
        cMatch == choiceRegex(line)
        open == acc.currentQ # <<>>
        cur == acc.currentQ[1]
    IN  IF line = <<>> THEN acc
        ELSE IF qMatch.matched
        THEN [questions |-> acc.questions \o acc.currentQ,
              currentQ |-> <<NewQuestion(qMatch, i)>>]
        ELSE IF cMatch.matched /\ open
        THEN [acc EXCEPT !.currentQ =
                 <<[cur EXCEPT !.choices =
                       Append(@, [key |-> toUpperCaseChar(cMatch.key),
                                  text |-> cMatch.text])]>>]
        ELSE IF open
        THEN [acc EXCEPT !.currentQ =
                 <<IF Len(cur.choices) > 0
                   THEN AppendToLastChoice(cur, line)
                   ELSE AppendToStem(cur, line)>>]
        ELSE acc

RECURSIVE QuestionsLoop(_, _, _)
QuestionsLoop(lines, i, acc) ==
    IF i > Len(lines) THEN acc
    ELSE QuestionsLoop(lines, i + 1, QuestionsLine(acc, lines[i], i))

\* a parse that returns without pushing the question still open
ParseClosedQuestions(text) ==
    QuestionsLoop(SplitLines(text), 1, [questions |-> <<>>, currentQ |-> <<>>]).questions

parseQuestionsText(text) ==
    LET acc == QuestionsLoop(SplitLines(text), 1,
                             [questions |-> <<>>, currentQ |-> <<>>])
    IN  acc.questions \o acc.currentQ

(***************************************************************************)
(* parseAnswersText                                                        *)
(***************************************************************************)
LitCorrect == <<"C", "o", "r", "r", "e", "c", "t", ":">>

LitExplanation == <<"E", "x", "p", "l", "a", "n", "a", "t", "i", "o", "n", ":">>

\* the regex flag i makes [A-Z] match the letters of either case
AnyLetter == UpperLetters \cup LowerLetters

\* the greedy group (?:\s*,\s*[A-Z])* started at position p: the position
\* after its last repetition
RECURSIVE KeyListEnd(_, _)
KeyListEnd(line, p) ==
    LET c == SkipWhile(line, p, WhiteSpace)
        k == SkipWhile(line, c + 1, WhiteSpace)
    IN  IF c <= Len(line) /\ line[c] = "," /\ k <= Len(line) /\ line[k] \in AnyLetter
        THEN KeyListEnd(line, k + 1)
        ELSE p

\* line.match(/^(\d+)[\.:\s]*Correct:\s*([A-Z](?:\s*,\s*[A-Z])*)/i): matched,
\* and the groups 1 (id) and 2 (the key list as written)
aStartRegex(line) ==
    LET p1 == SkipWhile(line, 1, Digits)
        p2 == SkipWhile(line, p1, {".", ":"} \cup WhiteSpace)
        p3 == p2 + Len(LitCorrect)
        p4 == SkipWhile(line, p3, WhiteSpace)
        ok == /\ p1 > 1
              /\ MatchLit(line, p2, LitCorrect)
              /\ p4 <= Len(line)
              /\ line[p4] \in AnyLetter
        p5 == KeyListEnd(line, p4 + 1)
    IN  IF ok
        THEN [matched |-> TRUE, id |-> SubSeq(line, 1, p1 - 1),
              keys |-> SubSeq(line, p4, p5 - 1)]
        ELSE [matched |-> FALSE, id |-> <<>>, keys |-> <<>>]

\* line.match(/^\s*Explanation:\s*(.*)/i): matched, and the group 1
expStartRegex(line) ==
    LET p0 == SkipWhile(line, 1, WhiteSpace)
        p1 == SkipWhile(line, p0 + Len(LitExplanation), WhiteSpace)
    IN  IF MatchLit(line, p0, LitExplanation)
        THEN [matched |-> TRUE, text |-> SubSeq(line, p1, Len(line))]
        ELSE [matched |-> FALSE, text |-> <<>>]

\* aMatch[2].split(',').map(k => k.trim().toUpperCase()): every piece of a
\* matched key list is one letter with whitespace around it
RECURSIVE SplitKeys(_)
SplitKeys(s) ==
    LET commas == {k \in DOMAIN s : s[k] = ","}
    IN  IF commas = {}
        THEN <<toUpperCase(trim(s))>>
        ELSE <<toUpperCase(trim(SubSeq(s, 1, MinOf(commas) - 1)))>>
             \o SplitKeys(SubSeq(s, MinOf(commas) + 1, Len(s)))

\* a key is a one-character string: the model keeps the character
KeyChars(pieces) == [i \in DOMAIN pieces |-> pieces[i][1]]

\* a Map that keeps the entry it already has for an id
MapSetOnce(m, a) ==
    [k \in DOMAIN m \cup {a.id} |-> IF k \in DOMAIN m THEN m[k] ELSE a]

\* answers.set(currentA.id, currentA): the Map as a function on the ids set
MapSet(m, a) ==
    [k \in DOMAIN m \cup {a.id} |-> IF k = a.id THEN a ELSE m[k]]

\* one iteration of the loop over the lines
AnswersLine(acc, raw) ==
    LET line == trim(raw)
        aMatch == aStartRegex(line)
        expMatch == expStartRegex(line)
        open == acc.currentA # <<>>
        cur == acc.currentA[1]
    IN  IF line = <<>> THEN acc
        ELSE IF aMatch.matched
        THEN [answers |-> IF open THEN MapSet(acc.answers, cur) ELSE acc.answers,
              currentA |-> <<[id |-> aMatch.id,
                              correctKeys |-> KeyChars(SplitKeys(aMatch.keys)),
                              explanation |-> <<>>]>>]
        ELSE IF expMatch.matched /\ open
        THEN [acc EXCEPT !.currentA = <<[cur EXCEPT !.explanation = expMatch.text]>>]
        ELSE IF open
        THEN [acc EXCEPT !.currentA =
                 <<[cur EXCEPT !.explanation =
                       IF @ = <<>> THEN line ELSE @ \o <<"\n">> \o line]>>]
        ELSE acc

RECURSIVE AnswersLoop(_, _, _)
AnswersLoop(lines, i, acc) ==
    IF i > Len(lines) THEN acc
    ELSE AnswersLoop(lines, i + 1, AnswersLine(acc, lines[i]))

\* new Map(): a function with the empty domain
EmptyMap == [k \in {} |-> k]

parseAnswersText(text) ==
    LET acc == AnswersLoop(SplitLines(text), 1,
                           [answers |-> EmptyMap, currentA |-> <<>>])
    IN  IF acc.currentA # <<>> THEN MapSet(acc.answers, acc.currentA[1])
        ELSE acc.answers

(***************************************************************************)
(* Matcher: processAndRender and renderQuestion                            *)
(***************************************************************************)
NoAnswerExplanation ==
    <<"N", "o", " ", "a", "n", "s", "w", "e", "r", " ", "k", "e", "y", " ",
      "f", "o", "u", "n", "d", ".">>

\* an id without its leading zeros
RECURSIVE StripZeros(_)
StripZeros(id) ==
    IF Len(id) > 1 /\ Head(id) = "0" THEN StripZeros(Tail(id)) ELSE id

\* a lookup that compares the ids as numbers: what MapGet would be if the
\* matching were lenient
MapGetNumeric(map, id) ==
    LET hits == {k \in DOMAIN map : StripZeros(k) = StripZeros(id)}
    IN  IF hits = {} THEN <<>> ELSE <<map[CHOOSE k \in hits : TRUE]>>

\* state.answersMap.get(id): the value stored under the key that is the same
\* string as id, as a one-element sequence, or the empty sequence for
\* undefined
MapGet(map, id) == IF id \in DOMAIN map THEN <<map[id]>> ELSE <<>>

\* a matching that keeps the status of an answered question
MatchAnswerKeepingStatus(q, map) ==
    LET answer == MapGet(map, q.id)
    IN  IF answer = <<>>
        THEN [q EXCEPT !.status = "ungraded",
                       !.explanation = NoAnswerExplanation,
                       !.correctKeys = <<>>]
        ELSE [q EXCEPT !.correctKeys = answer[1].correctKeys,
                       !.explanation = answer[1].explanation,
                       !.status = IF @ \in {"correct", "incorrect"} THEN @
                                  ELSE "unanswered"]

\* step 1 of the forEach body: the answer's fields or the ungraded placeholder
MatchAnswer(q, map) ==
    LET answer == MapGet(map, q.id)
    IN  IF answer = <<>>
        THEN [q EXCEPT !.status = "ungraded",
                       !.explanation = NoAnswerExplanation,
                       !.correctKeys = <<>>]
        ELSE [q EXCEPT !.correctKeys = answer[1].correctKeys,
                       !.explanation = answer[1].explanation,
                       !.status = "unanswered"]

\* the type from the number of correct keys alone: what DetermineType would
\* be if it ignored the explicit tag
DetermineTypeByCount(q) ==
    [q EXCEPT !.type = IF Len(q.correctKeys) > 1 THEN "MULTIPLE" ELSE "SINGLE"]

\* a type that is kept once it is set: what DetermineType would be if the
\* type were resolved only at the first matching
DetermineTypeOnce(q) ==
    IF q.type # Undefined THEN q
    ELSE IF q.explicitType # Null THEN [q EXCEPT !.type = q.explicitType]
    ELSE [q EXCEPT !.type = IF Len(q.correctKeys) > 1 THEN "MULTIPLE" ELSE "SINGLE"]

\* step 2 of the forEach body: explicit metadata, else the answer count
DetermineType(q) ==
    IF q.explicitType # Null
    THEN [q EXCEPT !.type = q.explicitType]
    ELSE [q EXCEPT !.type = IF Len(q.correctKeys) > 1 THEN "MULTIPLE" ELSE "SINGLE"]

MatchQuestion(q, map) == DetermineType(MatchAnswer(q, map))

\* the card renderQuestion appends for q: one label with one input per
\* choice, in the order of q.choices, nothing checked, no marker class, the
\* explanation hidden, the status icon empty
renderQuestion(q) ==
    [name |-> q.id,
     inputType |-> IF q.type = "SINGLE" THEN "radio" ELSE "checkbox",
     labels |-> [j \in DOMAIN q.choices |->
                    [key |-> q.choices[j].key, checked |-> FALSE, classes |-> {}]],
     disabled |-> FALSE,
     expHidden |-> TRUE,
     statusIcon |-> "none"]

ZeroStats == [total |-> 0, correct |-> 0, incorrect |-> 0]

\* a matching whose total leaves out the questions without an answer
ProcessCountingGraded(qs, map) ==
    LET matched == [i \in DOMAIN qs |-> MatchQuestion(qs[i], map)]
    IN  [questions |-> matched,
         cards |-> [i \in DOMAIN qs |-> renderQuestion(matched[i])],
         stats |-> [ZeroStats EXCEPT !.total =
                       Cardinality({i \in DOMAIN qs : qs[i].id \in DOMAIN map})]]

\* processAndRender on the question list qs and the answers map: the
\* questions after matching, their cards, and the counters
processAndRender(qs, map) ==
    LET matched == [i \in DOMAIN qs |-> MatchQuestion(qs[i], map)]
    IN  [questions |-> matched,
         cards |-> [i \in DOMAIN qs |-> renderQuestion(matched[i])],
         stats |-> [ZeroStats EXCEPT !.total = Len(qs)]]

\* a commit that leaves the matching to a later step
MatchedLater(s) == s

\* checkReadyToRender on a session state [questions, answersMap, stats, cards]
checkReadyToRender(s) ==
    IF Len(s.questions) > 0 /\ DOMAIN s.answersMap # {}
    THEN LET r == processAndRender(s.questions, s.answersMap)
         IN  [s EXCEPT !.questions = r.questions, !.cards = r.cards, !.stats = r.stats]
    ELSE s

(***************************************************************************)
(* Interaction: handleInteraction and markChoice                           *)
(***************************************************************************)
Includes(seq, x) == \E i \in DOMAIN seq : seq[i] = x

MarkerClass(type) ==
    IF type = "correct" THEN {"correct-choice"}
    ELSE IF type = "incorrect" THEN {"incorrect-choice"}
    ELSE IF type = "missed" THEN {"missed-correct"}
    ELSE {}

\* card.querySelector('.choice-label[data-key=key]') is the first such label
markChoice(card, key, type) ==
    LET hits == {j \in DOMAIN card.labels : card.labels[j].key = key}
    IN  IF hits = {} THEN card
        ELSE [card EXCEPT !.labels[MinOf(hits)].classes = @ \cup MarkerClass(type)]

\* keys.forEach(key => markChoice(card, key, type))
RECURSIVE MarkEach(_, _, _)
MarkEach(card, keys, type) ==
    IF keys = <<>> THEN card
    ELSE MarkEach(markChoice(card, Head(keys), type), Tail(keys), type)

\* a reveal that marks every correct key as missed
RevealAsMissed(card, keys, checkedKeys) == MarkEach(card, keys, "missed")

\* q.correctKeys.forEach(key => checkedKeys.includes(key) ? correct : missed)
RECURSIVE RevealEach(_, _, _)
RevealEach(card, keys, checkedKeys) ==
    IF keys = <<>> THEN card
    ELSE RevealEach(markChoice(card, Head(keys),
                               IF Includes(checkedKeys, Head(keys))
                               THEN "correct" ELSE "missed"),
                    Tail(keys), checkedKeys)

\* allInputs.forEach(inp => inp.disabled = true) and the labels' class
LockInputs(card) == [card EXCEPT !.disabled = TRUE]

\* Array.from(allInputs).filter(i => i.checked).map(i => i.value): the values
\* of the checked inputs in document order
\* the checked keys from the last input of the card to the first
RECURSIVE CheckedKeysBackwards(_)
CheckedKeysBackwards(labels) ==
    IF labels = <<>> THEN <<>>
    ELSE CheckedKeysBackwards(Tail(labels))
         \o (IF Head(labels).checked THEN <<Head(labels).key>> ELSE <<>>)

RECURSIVE CheckedKeys(_)
CheckedKeys(labels) ==
    IF labels = <<>> THEN <<>>
    ELSE (IF Head(labels).checked THEN <<Head(labels).key>> ELSE <<>>)
         \o CheckedKeys(Tail(labels))

\* a guard that locks the correct questions only
LockedWhenCorrect(q) == q.status = "correct"

\* a guard that locks the incorrect questions only
LockedWhenIncorrect(q) == q.status = "incorrect"

\* a guard that locks the ungraded questions too
LockedOrUngraded(q) ==
    q.status = "correct" \/ q.status = "incorrect" \/ q.status = "ungraded"

\* the early return of handleInteraction
Locked(q) == q.status = "correct" \/ q.status = "incorrect"

\* correctKeys[0] === selectedKey: only the first correct key counts
IsFirstCorrectKey(q, selectedKey) ==
    q.correctKeys # <<>> /\ q.correctKeys[1] = selectedKey

\* q.correctKeys.every(k => k === selectedKey): true of an empty list
IsEveryCorrectKey(q, selectedKey) ==
    \A i \in DOMAIN q.correctKeys : q.correctKeys[i] = selectedKey

\* const isCorrect = q.correctKeys.includes(selectedKey)
IsCorrect(q, selectedKey) == Includes(q.correctKeys, selectedKey)

\* the SINGLE branch
SingleChoice(q, selectedKey, card, st) ==
    LET isCorrect == IsCorrect(q, selectedKey)
        locked == LockInputs(card)
    IN  IF isCorrect
        THEN [q |-> [q EXCEPT !.status = "correct",
                              !.userSelectedKeys = <<selectedKey>>],
              card |-> [markChoice(locked, selectedKey, "correct")
                           EXCEPT !.statusIcon = "correct", !.expHidden = FALSE],
              stats |-> [st EXCEPT !.correct = @ + 1]]
        ELSE [q |-> [q EXCEPT !.status = "incorrect",
                              !.userSelectedKeys = <<selectedKey>>],
              card |-> [MarkEach(markChoice(locked, selectedKey, "incorrect"),
                                 q.correctKeys, "correct")
                           EXCEPT !.statusIcon = "incorrect", !.expHidden = FALSE],
              stats |-> [st EXCEPT !.incorrect = @ + 1]]

\* a check of the latest click that never fails
LatestAccepted(q, selectedKey) == TRUE

\* const isLatestCorrect = q.correctKeys.includes(selectedKey)
IsLatestCorrect(q, selectedKey) == Includes(q.correctKeys, selectedKey)

\* q.correctKeys.some(k => checkedKeys.includes(k)): one correct key is enough
SomeCorrectSelected(q, checkedKeys) ==
    \E i \in DOMAIN q.correctKeys : Includes(checkedKeys, q.correctKeys[i])

\* const allCorrectSelected = q.correctKeys.every(k => checkedKeys.includes(k))
AllCorrectSelected(q, checkedKeys) ==
    \A i \in DOMAIN q.correctKeys : Includes(checkedKeys, q.correctKeys[i])

\* a correct key that does not complete the set is marked at once
MarkedAtOnce(q, selectedKey, card, st) ==
    [q |-> q, card |-> markChoice(card, selectedKey, "correct"), stats |-> st]

\* a handler that records the checked keys at every change event
RecordedAtOnce(q, selectedKey, card, st) ==
    [q |-> [q EXCEPT !.userSelectedKeys = CheckedKeys(card.labels)],
     card |-> card, stats |-> st]

\* the end of the MULTIPLE branch when the if (allCorrectSelected &&
\* noIncorrectSelected) is false: nothing is assigned
NoFeedback(q, selectedKey, card, st) == [q |-> q, card |-> card, stats |-> st]

\* the MULTIPLE branch
MultipleChoice(q, selectedKey, card, st) ==
    LET checkedKeys == CheckedKeys(card.labels)
        isLatestCorrect == IsLatestCorrect(q, selectedKey)
        allCorrectSelected == AllCorrectSelected(q, checkedKeys)
        noIncorrectSelected ==
            \A i \in DOMAIN checkedKeys : Includes(q.correctKeys, checkedKeys[i])
    IN  IF ~isLatestCorrect
        THEN [q |-> [q EXCEPT !.status = "incorrect",
                              !.userSelectedKeys = checkedKeys],
              card |-> [RevealEach(markChoice(LockInputs(card), selectedKey, "incorrect"),
                                   q.correctKeys, checkedKeys)
                           EXCEPT !.statusIcon = "incorrect", !.expHidden = FALSE],
              stats |-> [st EXCEPT !.incorrect = @ + 1]]
        ELSE IF allCorrectSelected /\ noIncorrectSelected
        THEN [q |-> [q EXCEPT !.status = "correct",
                              !.userSelectedKeys = checkedKeys],
              card |-> [MarkEach(LockInputs(card), checkedKeys, "correct")
                           EXCEPT !.statusIcon = "correct", !.expHidden = FALSE],
              stats |-> [st EXCEPT !.correct = @ + 1]]
        ELSE NoFeedback(q, selectedKey, card, st)

\* handleInteraction(q, selectedKey, inputElement, cardElement): the question,
\* its card and the counters after the call
handleInteraction(q, selectedKey, card, st) ==
    IF Locked(q) THEN [q |-> q, card |-> card, stats |-> st]
    ELSE IF q.type = "SINGLE" THEN SingleChoice(q, selectedKey, card, st)
    ELSE MultipleChoice(q, selectedKey, card, st)

(***************************************************************************)
(* The files the user can select and the texts the service can return      *)
(***************************************************************************)
\* the lines joined by line feeds
RECURSIVE JoinLines(_)
JoinLines(lines) ==
    IF Len(lines) = 1 THEN lines[1]
    ELSE lines[1] \o <<"\n">> \o JoinLines(Tail(lines))

\* Q1 [Single]: s / A. x / B. y / C. z / / 2. t / A. a / B) b / C. c / D. d
QuestionsTextA ==
    JoinLines(<< <<"Q", "1", " ", "[", "S", "i", "n", "g", "l", "e", "]", ":", " ", "s">>,
                 <<"A", ".", " ", "x">>,
                 <<"B", ".", " ", "y">>,
                 <<"C", ".", " ", "z">>,
                 <<>>,
                 <<"2", ".", " ", "t">>,
                 <<"A", ".", " ", "a">>,
                 <<" ", "B", ")", " ", "b">>,
                 <<"C", ".", " ", "c">>,
                 <<"D", ".", " ", "d">> >>)

\* 7 [Multiple] u / A. x / B. y, with CR LF line breaks
QuestionsTextB ==
    JoinLines(<< <<"7", " ", "[", "M", "u", "l", "t", "i", "p", "l", "e", "]", " ", "u", "\r">>,
                 <<"A", ".", " ", "x", "\r">>,
                 <<"B", ".", " ", "y">> >>)

\* a file without any question-start line: note / A. x
QuestionsTextC == JoinLines(<< <<"n", "o", "t", "e">>, <<"A", ".", " ", "x">> >>)

\* the question files on disk
QuestionFiles ==
    << [name |-> "b", text |-> QuestionsTextA],
       [name |-> "a", text |-> QuestionsTextB],
       [name |-> "c", text |-> QuestionsTextC] >>

\* 1. Correct: B / Explanation: e / 2. Correct: B, C, D / 7. correct: a
AnswersTextK ==
    JoinLines(<< <<"1", ".", " ", "C", "o", "r", "r", "e", "c", "t", ":", " ", "B">>,
                 <<" ", "E", "x", "p", "l", "a", "n", "a", "t", "i", "o", "n", ":", " ", "e">>,
                 <<"2", ".", " ", "C", "o", "r", "r", "e", "c", "t", ":", " ",
                   "B", ",", " ", "C", ",", " ", "D">>,
                 <<"7", ".", " ", "c", "o", "r", "r", "e", "c", "t", ":", " ", "a">> >>)

\* 1. Correct: A, C / 07. Correct: A
AnswersTextL ==
    JoinLines(<< <<"1", ".", " ", "C", "o", "r", "r", "e", "c", "t", ":", " ", "A", ",", " ", "C">>,
                 <<"0", "7", ".", " ", "C", "o", "r", "r", "e", "c", "t", ":", " ", "A">> >>)

\* an answers file without any answer-start line
AnswersTextM ==
    <<"E", "x", "p", "l", "a", "n", "a", "t", "i", "o", "n", ":", " ", "e">>

\* the answer files on disk
AnswerFiles ==
    << [name |-> "k", text |-> AnswersTextK],
       [name |-> "l", text |-> AnswersTextL],
       [name |-> "m", text |-> AnswersTextM] >>

\* the back quote of a code fence, written as a tilde: a TLA+ string cannot
\* hold a back quote
BackQuote == "~"

\* (fence)text / Part 1 - Questions / 2. t / A. a / B. b / C. c /
\* 2. u / A. a / / Part 2 - Answers / 2. Correct: B, C / (fence): the
\* number 2 is given to two questions
GeneratedTextG ==
    JoinLines(<< <<BackQuote, BackQuote, BackQuote, "t", "e", "x", "t">>,
                 <<"P", "a", "r", "t", " ", "1", " ", "-", " ",
                   "Q", "u", "e", "s", "t", "i", "o", "n", "s">>,
                 <<"2", ".", " ", "t">>,
                 <<"A", ".", " ", "a">>,
                 <<"B", ".", " ", "b">>,
                 <<"C", ".", " ", "c">>,
                 <<"2", ".", " ", "u">>,
                 <<"A", ".", " ", "a">>,
                 <<>>,
                 <<"P", "a", "r", "t", " ", "2", " ", "-", " ",
                   "A", "n", "s", "w", "e", "r", "s">>,
                 <<"2", ".", " ", "C", "o", "r", "r", "e", "c", "t", ":", " ", "B", ",", " ", "C">>,
                 <<BackQuote, BackQuote, BackQuote>> >>)

\* a response without the marker of the answers part: 2. t / A. a
GeneratedTextH == JoinLines(<< <<"2", ".", " ", "t">>, <<"A", ".", " ", "a">> >>)

\* the texts the generation service can return
GeneratedTexts == <<GeneratedTextG, GeneratedTextH>>

\* how many files one selection of the questions input can hold
MaxFilesPerUpload == 2

\* how many upload and generation handlers one session starts
MaxUploads == 2

(***************************************************************************)
(* The sort of the selected files                                          *)
(***************************************************************************)
\* a.name.localeCompare(b.name) < 0, for the one-letter lower-case names
NameBefore(a, b) ==
    (CHOOSE i \in DOMAIN LowerSeq : LowerSeq[i] = a)
        < (CHOOSE i \in DOMAIN LowerSeq : LowerSeq[i] = b)

\* the files in the order of their selection
SelectionOrder(files) == files

\* files.sort((a, b) => a.name.localeCompare(b.name)) on a sequence of
\* indexes into QuestionFiles
RECURSIVE SortByName(_)
SortByName(files) ==
    IF files = <<>> THEN <<>>
    ELSE LET first == CHOOSE i \in DOMAIN files :
                          \A k \in DOMAIN files :
                              \/ NameBefore(QuestionFiles[files[i]].name,
                                            QuestionFiles[files[k]].name)
                              \/ (QuestionFiles[files[i]].name = QuestionFiles[files[k]].name
                                  /\ i <= k)
             rest == [k \in 1..(Len(files) - 1) |->
                         IF k < first THEN files[k] ELSE files[k + 1]]
         IN  <<files[first]>> \o SortByName(rest)

\* e.target.files of the questions input: a sequence of distinct files
FileSelections ==
    {sel \in UNION {[1..n -> DOMAIN QuestionFiles] : n \in 0..MaxFilesPerUpload} :
        \A i, k \in DOMAIN sel : i # k => sel[i] # sel[k]}

(***************************************************************************)
(* The session state the handlers share, as one record                     *)
(***************************************************************************)
Session == [questions |-> questions, answersMap |-> answersMap,
            stats |-> stats, cards |-> cards]

Commit(s) ==
    /\ questions' = s.questions
    /\ answersMap' = s.answersMap
    /\ stats' = s.stats
    /\ cards' = s.cards

\* the history variable after an event that is neither a change event of a
\* choice input, nor a click on the reset button, nor an upload that threw
\* on an empty parse or on an unreadable file
NoEvent == [op |-> "other", idx |-> 0, key |-> "", pre |-> ""]

Event(op, idx, key, pre) == [op |-> op, idx |-> idx, key |-> key, pre |-> pre]

\* no function is called on its own
NoCall == [fn |-> "none"]

\* a handler reaches an await
Suspend(h) == inflight (+) SetToBag({h})

\* the awaited promise of the suspended handler h settles
Resume(h) == inflight (-) SetToBag({h})

(***************************************************************************)
(* handleQuestionsUpload                                                   *)
(***************************************************************************)
\* the change event of the questions input, up to the first await
handleQuestionsUpload(sel) ==
    /\ IF Len(sel) = 0
       THEN UNCHANGED <<inflight, uploads>>
       ELSE /\ uploads < MaxUploads
            /\ uploads' = uploads + 1
            /\ inflight' = Suspend([handler |-> "questions", files |-> SortByName(sel),
                                    next |-> 1, allText |-> <<>>])
    /\ ev' = NoEvent
    /\ UNCHANGED call
    /\ UNCHANGED <<questions, answersMap, stats, cards>>

\* an upload that assigns the parsed questions whatever their number
QuestionsAssigned(s, allText) ==
    checkReadyToRender([s EXCEPT !.questions = parseQuestionsText(allText)])

\* the code after the last await of handleQuestionsUpload, on the text read:
\* an empty parse throws before anything is assigned
QuestionsParsed(s, allText) ==
    LET parsedQuestions == parseQuestionsText(allText)
    IN  IF Len(parsedQuestions) = 0 THEN s
        ELSE checkReadyToRender([s EXCEPT !.questions = parsedQuestions])

\* a handler that parses the text read so far when a file is unreadable
QuestionsReadSalvaged(h, ok) ==
    /\ h \in BagToSet(inflight)
    /\ h.handler = "questions"
    /\ LET text == h.allText \o QuestionFiles[h.files[h.next]].text \o <<"\n", "\n">>
       IN  IF ~ok
           THEN /\ inflight' = Resume(h)
                /\ Commit(QuestionsParsed(Session, h.allText))
           ELSE IF h.next < Len(h.files)
           THEN /\ inflight' = Resume(h) (+) SetToBag({[h EXCEPT !.next = @ + 1,
                                                                !.allText = text]})
                /\ UNCHANGED <<questions, answersMap, stats, cards>>
           ELSE /\ inflight' = Resume(h)
                /\ Commit(QuestionsParsed(Session, text))
    /\ ev' = IF ok /\ h.next = Len(h.files)
                   /\ Len(parseQuestionsText(h.allText
                                             \o QuestionFiles[h.files[h.next]].text
                                             \o <<"\n", "\n">>)) = 0
             THEN Event("rejected", 0, "questions", "")
             ELSE IF ~ok THEN Event("unreadable", h.next, "questions", "")
             ELSE NoEvent
    /\ UNCHANGED call
    /\ UNCHANGED uploads

\* readFile(file) settles for the suspended handler h: rejected (the catch
\* block ends the handler), resolved with more files to read, or resolved
\* for the last file
QuestionsReadDone(h, ok) ==
    /\ h \in BagToSet(inflight)
    /\ h.handler = "questions"
    /\ LET text == h.allText \o QuestionFiles[h.files[h.next]].text \o <<"\n", "\n">>
       IN  IF ~ok
           THEN /\ inflight' = Resume(h)
                /\ UNCHANGED <<questions, answersMap, stats, cards>>
           ELSE IF h.next < Len(h.files)
           THEN /\ inflight' = Resume(h) (+) SetToBag({[h EXCEPT !.next = @ + 1,
                                                                !.allText = text]})
                /\ UNCHANGED <<questions, answersMap, stats, cards>>
           ELSE /\ inflight' = Resume(h)
                /\ Commit(QuestionsParsed(Session, text))
    /\ ev' = IF ok /\ h.next = Len(h.files)
                   /\ Len(parseQuestionsText(h.allText
                                             \o QuestionFiles[h.files[h.next]].text
                                             \o <<"\n", "\n">>)) = 0
             THEN Event("rejected", 0, "questions", "")
             ELSE IF ~ok THEN Event("unreadable", h.next, "questions", "")
             ELSE NoEvent
    /\ UNCHANGED call
    /\ UNCHANGED uploads

(***************************************************************************)
(* handleAnswersUpload                                                     *)
(***************************************************************************)
\* the change event of the answers input, up to the await; f = 0 is a change
\* event without a file
handleAnswersUpload(f) ==
    /\ IF f = 0
       THEN UNCHANGED <<inflight, uploads>>
       ELSE /\ uploads < MaxUploads
            /\ uploads' = uploads + 1
            /\ inflight' = Suspend([handler |-> "answers", files |-> <<f>>,
                                    next |-> 1, allText |-> <<>>])
    /\ ev' = NoEvent
    /\ UNCHANGED call
    /\ UNCHANGED <<questions, answersMap, stats, cards>>

\* the code after the await of handleAnswersUpload, on the text read
AnswersParsed(s, text) ==
    LET parsedAnswers == parseAnswersText(text)
    IN  IF DOMAIN parsedAnswers = {} THEN s
        ELSE checkReadyToRender([s EXCEPT !.answersMap = parsedAnswers])

AnswersReadDone(h, ok) ==
    /\ h \in BagToSet(inflight)
    /\ h.handler = "answers"
    /\ IF ~ok
       THEN UNCHANGED <<questions, answersMap, stats, cards>>
       ELSE Commit(AnswersParsed(Session, AnswerFiles[h.files[1]].text))
    /\ inflight' = Resume(h)
    /\ ev' = IF ok /\ DOMAIN parseAnswersText(AnswerFiles[h.files[1]].text) = {}
             THEN Event("rejected", 0, "answers", "")
             ELSE IF ~ok THEN Event("unreadable", 1, "answers", "")
             ELSE NoEvent
    /\ UNCHANGED call
    /\ UNCHANGED uploads

(***************************************************************************)
(* gemini.js: generateQuestions and processGeneratedText                   *)
(***************************************************************************)
\* the first position at or after from where lit matches (flag i), 0 if none
FirstOf(hits) == IF hits = {} THEN 0 ELSE MinOf(hits)

FindLit(s, from, lit) == FirstOf({k \in from..Len(s) : MatchLit(s, k, lit)})

\* the position after the line that holds position p
LineEnd(s, p) ==
    FirstOf({k \in p..(Len(s) + 1) : k = Len(s) + 1 \/ s[k] \in LineTerminators})

\* the end (exclusive) of  -.*?tail  matched lazily from position p of the
\* line, 0 if there is none
DashThenTail(line, d, tail) ==
    IF d = 0 THEN 0
    ELSE IF FindLit(line, d + 1, tail) = 0 THEN 0
    ELSE FindLit(line, d + 1, tail) + Len(tail)

\* the end (exclusive) of a match of  head.*?-.*?tail  started at position p,
\* 0 if there is none: the dot does not cross a line break
LazyDashMatch(s, p, head, tail) ==
    IF ~MatchLit(s, p, head) THEN 0
    ELSE DashThenTail(SubSeq(s, 1, LineEnd(s, p) - 1),
                      FindLit(SubSeq(s, 1, LineEnd(s, p) - 1), p + Len(head), <<"-">>),
                      tail)

LitPart1 == <<"P", "a", "r", "t", " ", "1">>

LitPart2 == <<"P", "a", "r", "t", " ", "2">>

LitQuestions == <<"Q", "u", "e", "s", "t", "i", "o", "n", "s">>

LitAnswers == <<"A", "n", "s", "w", "e", "r", "s">>

LitAnswerKey ==
    <<"A", "n", "s", "w", "e", "r", " ", "K", "e", "y", " ", "a", "n", "d", " ",
      "E", "x", "p", "l", "a", "n", "a", "t", "i", "o", "n", "s">>

LitFence == <<BackQuote, BackQuote, BackQuote>>

\* the first alternative of the separator if it matched (end > 0), else the
\* second one
FirstOrSecond(s, p, end) ==
    IF end # 0 THEN end
    ELSE IF MatchLit(s, p, LitAnswerKey) THEN p + Len(LitAnswerKey)
    ELSE 0

\* the end (exclusive) of a match of
\* /(?:Part 2.*?-.*?Answers|Answer Key and Explanations)/i at position p, or 0
SeparatorAt(s, p) == FirstOrSecond(s, p, LazyDashMatch(s, p, LitPart2, LitAnswers))

MatchFrom(s, start) ==
    IF start = 0 THEN [start |-> 0, end |-> 0]
    ELSE [start |-> start, end |-> SeparatorAt(s, start)]

\* the leftmost match of the separator at or after from: [start, end), or
\* start = 0 when there is none
FindSeparator(s, from) ==
    MatchFrom(s, FirstOf({k \in from..Len(s) : SeparatorAt(s, k) # 0}))

SecondPart(s, m1, m2) ==
    SubSeq(s, m1.end, IF m2.start = 0 THEN Len(s) ELSE m2.start - 1)

PartsAround(s, m1) ==
    IF m1.start = 0 THEN <<s>>
    ELSE <<SubSeq(s, 1, m1.start - 1), SecondPart(s, m1, FindSeparator(s, m1.end))>>

\* text.split(separator), its first two pieces; the array has one piece when
\* the separator does not occur
SplitParts(s) == PartsAround(s, FindSeparator(s, 1))

CutOut(s, b, e) == IF b = 0 THEN s ELSE SubSeq(s, 1, b - 1) \o SubSeq(s, e, Len(s))

CutFrom(s, b) == CutOut(s, b, IF b = 0 THEN 0 ELSE LazyDashMatch(s, b, LitPart1, LitQuestions))

\* text.replace(/Part 1.*?-.*?Questions/i, '')
StripPart1(s) ==
    CutFrom(s, FirstOf({k \in DOMAIN s : LazyDashMatch(s, k, LitPart1, LitQuestions) # 0}))

\* text.replace(/^(fence)[a-z]*\s*/i, '')
StripOpeningFence(text) ==
    IF MatchLit(text, 1, LitFence)
    THEN SubSeq(text,
                SkipWhile(text, SkipWhile(text, 4, UpperLetters \cup LowerLetters),
                          WhiteSpace),
                Len(text))
    ELSE text

CutTail(text, b) == IF b = 0 THEN text ELSE SubSeq(text, 1, b - 1)

\* text.replace(/(fence)\s*$/, '')
StripClosingFence(text) ==
    CutTail(text, FirstOf({k \in DOMAIN text :
                              /\ MatchLit(text, k, LitFence)
                              /\ SkipWhile(text, k + 3, WhiteSpace) = Len(text) + 1}))

\* cleanGeneratedText: the opening fence with its language word, the closing
\* fence at the end of the text, and the whitespace around
cleanGeneratedText(text) == trim(StripClosingFence(StripOpeningFence(text)))

\* the assignments of processGeneratedText and its call of processAndRender
UpdateState(parsedAnswers, r) ==
    [questions |-> r.questions, answersMap |-> parsedAnswers,
     stats |-> r.stats, cards |-> r.cards]

\* checks that assign the questions before the answers are looked at
CheckAfterAssigning(s, parsedQuestions, parsedAnswers) ==
    IF Len(parsedQuestions) = 0 THEN s
    ELSE IF DOMAIN parsedAnswers = {} THEN [s EXCEPT !.questions = parsedQuestions]
    ELSE UpdateState(parsedAnswers, processAndRender(parsedQuestions, parsedAnswers))

\* the two checks of the parse results: either throws before the assignments
CheckParsed(s, parsedQuestions, parsedAnswers) ==
    IF Len(parsedQuestions) = 0 THEN s
    ELSE IF DOMAIN parsedAnswers = {} THEN s
    ELSE UpdateState(parsedAnswers, processAndRender(parsedQuestions, parsedAnswers))

\* the check of the split: a text without the separator throws
CheckParts(s, parts) ==
    IF Len(parts) < 2 THEN s
    ELSE CheckParsed(s, parseQuestionsText(trim(StripPart1(parts[1]))),
                     parseAnswersText(trim(parts[2])))

\* processGeneratedText on the session s
processGeneratedText(s, text) == CheckParts(s, SplitParts(cleanGeneratedText(text)))

\* the click on the generate button, up to the first await; valid is the
\* outcome of the three validations (API key, source file, file size)
generateQuestions(valid) ==
    /\ IF ~valid
       THEN UNCHANGED <<inflight, uploads>>
       ELSE /\ uploads < MaxUploads
            /\ uploads' = uploads + 1
            /\ inflight' = Suspend([handler |-> "generate", files |-> <<>>,
                                    next |-> 1, allText |-> <<>>])
    /\ ev' = NoEvent
    /\ UNCHANGED call
    /\ UNCHANGED <<questions, answersMap, stats, cards>>

\* readFileAsBase64 settles for the suspended generateQuestions h
GenerateReadDone(h, ok) ==
    /\ h \in BagToSet(inflight)
    /\ h.handler = "generate"
    /\ h.next = 1
    /\ inflight' = IF ok THEN Resume(h) (+) SetToBag({[h EXCEPT !.next = 2]})
                   ELSE Resume(h)
    /\ ev' = NoEvent
    /\ UNCHANGED call
    /\ UNCHANGED <<questions, answersMap, stats, cards, uploads>>

\* callGeminiAPI settles for the suspended generateQuestions h: g = 0 is a
\* failed call or a response without candidates, else the text returned
GenerateResponse(h, g) ==
    /\ h \in BagToSet(inflight)
    /\ h.handler = "generate"
    /\ h.next = 2
    /\ IF g = 0
       THEN UNCHANGED <<questions, answersMap, stats, cards>>
       ELSE Commit(processGeneratedText(Session, GeneratedTexts[g]))
    /\ inflight' = Resume(h)
    /\ ev' = NoEvent
    /\ UNCHANGED call
    /\ UNCHANGED uploads

(***************************************************************************)
(* The change event of a choice input                                      *)
(***************************************************************************)
\* what the browser does to the inputs before it fires change: a radio
\* unchecks the radios of its group (same name), a checkbox toggles
Click(cs, i, j) ==
    IF cs[i].inputType = "radio"
    THEN [c \in DOMAIN cs |->
             IF cs[c].inputType = "radio" /\ cs[c].name = cs[i].name
             THEN [cs[c] EXCEPT !.labels =
                      [l \in DOMAIN @ |-> [@[l] EXCEPT !.checked = (c = i /\ l = j)]]]
             ELSE cs[c]]
    ELSE [cs EXCEPT ![i].labels[j].checked = ~@]

\* a listener that looks its card up by the element id q-card-<id>, which
\* finds the first card rendered with the id of question i
InteractById(s, i, j) ==
    LET f == CHOOSE k \in DOMAIN s.questions :
                 /\ s.questions[k].id = s.questions[i].id
                 /\ \A m \in 1..(k - 1) : s.questions[m].id # s.questions[i].id
        r == handleInteraction(s.questions[i], s.questions[i].choices[j].key,
                               s.cards[f], s.stats)
    IN  [s EXCEPT !.questions[i] = r.q, !.cards[f] = r.card, !.stats = r.stats]

\* the listener of input j of card i runs on the session s
Interact(s, i, j) ==
    LET r == handleInteraction(s.questions[i], s.questions[i].choices[j].key,
                               s.cards[i], s.stats)
    IN  [s EXCEPT !.questions[i] = r.q, !.cards[i] = r.card, !.stats = r.stats]

\* the user clicks input j of card i: possible while the input is enabled,
\* and for a radio while it is not the checked one
UserSelect(i, j) ==
    /\ i \in DOMAIN cards
    /\ j \in DOMAIN cards[i].labels
    /\ ~cards[i].disabled
    /\ cards[i].inputType = "radio" => ~cards[i].labels[j].checked
    /\ Commit(Interact([Session EXCEPT !.cards = Click(cards, i, j)], i, j))
    /\ ev' = Event("select", i, cards[i].labels[j].key, questions[i].status)
    /\ UNCHANGED call
    /\ UNCHANGED <<inflight, uploads>>

\* a change event that reaches the listener of a disabled input (dispatched
\* by script): the inputs keep their checked state
DispatchChange(i, j) ==
    /\ i \in DOMAIN cards
    /\ j \in DOMAIN cards[i].labels
    /\ cards[i].disabled
    /\ Commit(Interact(Session, i, j))
    /\ ev' = Event("dispatch", i, "", questions[i].status)
    /\ UNCHANGED call
    /\ UNCHANGED <<inflight, uploads>>

(***************************************************************************)
(* resetApp                                                                *)
(***************************************************************************)
\* a reset that does not wait for the confirmation
ResetWithoutConfirm(confirmed) ==
    /\ questions' = <<>>
    /\ answersMap' = EmptyMap
    /\ stats' = ZeroStats
    /\ cards' = <<>>
    /\ ev' = Event(IF confirmed THEN "reset" ELSE "declined", Len(questions), "", "")
    /\ UNCHANGED <<inflight, uploads, call>>

\* confirmed is the answer to confirm("Are you sure ...")
resetApp(confirmed) ==
    /\ IF ~confirmed
       THEN UNCHANGED <<questions, answersMap, stats, cards>>
       ELSE /\ questions' = <<>>
            /\ answersMap' = EmptyMap
            /\ stats' = ZeroStats
            /\ cards' = <<>>
    /\ ev' = Event(IF confirmed THEN "reset" ELSE "declined", Len(questions), "", "")
    /\ UNCHANGED call
    /\ UNCHANGED <<inflight, uploads>>

(***************************************************************************)
(* The session                                                             *)
(***************************************************************************)
Init ==
    /\ questions = <<>>
    /\ answersMap = EmptyMap
    /\ stats = ZeroStats
    /\ cards = <<>>
    /\ inflight = EmptyBag
    /\ uploads = 0
    /\ ev = NoEvent
    /\ call = NoCall

Next ==
    \/ \E sel \in FileSelections : handleQuestionsUpload(sel)
    \/ \E h \in BagToSet(inflight), ok \in BOOLEAN : QuestionsReadDone(h, ok)
    \/ \E f \in 0..Len(AnswerFiles) : handleAnswersUpload(f)
    \/ \E h \in BagToSet(inflight), ok \in BOOLEAN : AnswersReadDone(h, ok)
    \/ \E valid \in BOOLEAN : generateQuestions(valid)
    \/ \E h \in BagToSet(inflight), ok \in BOOLEAN : GenerateReadDone(h, ok)
    \/ \E h \in BagToSet(inflight), g \in 0..Len(GeneratedTexts) : GenerateResponse(h, g)
    \/ \E i \in DOMAIN cards : \E j \in DOMAIN cards[i].labels : UserSelect(i, j)
    \/ \E i \in DOMAIN cards : \E j \in DOMAIN cards[i].labels : DispatchChange(i, j)
    \/ \E confirmed \in BOOLEAN : resetApp(confirmed)

Spec == Init /\ [][Next]_vars

(***************************************************************************)
(* Properties of the interaction state machine and of the matcher          *)
(***************************************************************************)
AsSet(seq) == {seq[i] : i \in DOMAIN seq}

\* the keys of the checked inputs of a card
CheckedSet(card) == {card.labels[j].key : j \in {l \in DOMAIN card.labels :
                                                    card.labels[l].checked}}

Terminal(q) == q.status \in {"correct", "incorrect"}

\* the last step was the change event of an enabled input of a question
\* whose status was pre and whose type is type
Selected(pre, type) ==
    /\ ev.op = "select"
    /\ ev.pre = pre
    /\ questions[ev.idx].type = type

\* C1: a selection of key k on an unanswered SINGLE question sets its status
\* to correct when k is one of correctKeys and to incorrect otherwise, and
\* records userSelectedKeys = [k], however many correct keys there are.
C1_SingleSelection ==
    Selected("unanswered", "SINGLE") =>
        /\ questions[ev.idx].status =
              IF ev.key \in AsSet(questions[ev.idx].correctKeys)
              THEN "correct" ELSE "incorrect"
        /\ questions[ev.idx].userSelectedKeys = <<ev.key>>

\* an explicit SINGLE question with two correct keys, answered with the
\* second of them
C1_Witness ==
    /\ Selected("unanswered", "SINGLE")
    /\ Len(questions[ev.idx].correctKeys) = 2
    /\ ev.key = questions[ev.idx].correctKeys[2]
    /\ questions[ev.idx].status = "correct"

\* C2: a toggle of a key outside correctKeys on an unanswered MULTIPLE
\* question sets its status to incorrect at once and records the checked
\* keys as userSelectedKeys, whatever was checked before.
C2_WrongToggleFails ==
    (/\ Selected("unanswered", "MULTIPLE")
     /\ ev.key \notin AsSet(questions[ev.idx].correctKeys)) =>
        /\ questions[ev.idx].status = "incorrect"
        /\ AsSet(questions[ev.idx].userSelectedKeys) = CheckedSet(cards[ev.idx])
        /\ ev.key \in CheckedSet(cards[ev.idx])

\* the wrong key is toggled after two correct keys were checked
C2_Witness ==
    /\ Selected("unanswered", "MULTIPLE")
    /\ ev.key \notin AsSet(questions[ev.idx].correctKeys)
    /\ questions[ev.idx].status = "incorrect"
    /\ Cardinality(CheckedSet(cards[ev.idx])
                       \cap AsSet(questions[ev.idx].correctKeys)) = 2
    /\ Len(questions[ev.idx].userSelectedKeys) = 3

\* C3: a toggle of a key of correctKeys on an unanswered MULTIPLE question
\* sets its status to correct exactly when the checked keys are correctKeys
\* as a set, userSelectedKeys is then that set, and otherwise the question
\* stays unanswered.
C3_CorrectToggle ==
    (/\ Selected("unanswered", "MULTIPLE")
     /\ ev.key \in AsSet(questions[ev.idx].correctKeys)) =>
        /\ questions[ev.idx].status \in {"correct", "unanswered"}
        /\ questions[ev.idx].status = "correct"
              <=> CheckedSet(cards[ev.idx]) = AsSet(questions[ev.idx].correctKeys)
        /\ questions[ev.idx].status = "correct"
              => AsSet(questions[ev.idx].userSelectedKeys) = CheckedSet(cards[ev.idx])

\* correctKeys B, C, D completed by the selection of B: an order other than
\* B, C, D
C3_Witness ==
    /\ Selected("unanswered", "MULTIPLE")
    /\ AsSet(questions[ev.idx].correctKeys) = {"B", "C", "D"}
    /\ ev.key = "B"
    /\ questions[ev.idx].status = "correct"
    /\ AsSet(questions[ev.idx].userSelectedKeys) = {"B", "C", "D"}

\* C4: progressive reveal: a rendered MULTIPLE question whose status is
\* unanswered shows no marker on any choice, its explanation is hidden, its
\* inputs are enabled, it has no status icon, and the counters count exactly
\* the questions whose status is correct or incorrect.
C4_ProgressiveReveal ==
    \A i \in DOMAIN cards :
        (questions[i].type = "MULTIPLE" /\ questions[i].status = "unanswered") =>
            /\ \A j \in DOMAIN cards[i].labels : cards[i].labels[j].classes = {}
            /\ cards[i].expHidden
            /\ ~cards[i].disabled
            /\ cards[i].statusIcon = "none"
            /\ stats.correct =
                  Cardinality({k \in DOMAIN questions : questions[k].status = "correct"})
            /\ stats.incorrect =
                  Cardinality({k \in DOMAIN questions : questions[k].status = "incorrect"})

\* a correct key was just unchecked again while another correct key stays
\* checked
C4_Witness ==
    /\ Selected("unanswered", "MULTIPLE")
    /\ questions[ev.idx].status = "unanswered"
    /\ ev.key \in AsSet(questions[ev.idx].correctKeys)
    /\ ev.key \notin CheckedSet(cards[ev.idx])
    /\ CheckedSet(cards[ev.idx]) # {}

\* C5: a change event that reaches a question whose status is correct or
\* incorrect changes nothing: the questions (status, userSelectedKeys), the
\* cards (markers, inputs), the counters and the answers stay as they are.
C5_LockedNoOp ==
    [][(ev'.op = "dispatch" /\ Terminal(questions[ev'.idx])) =>
          /\ questions' = questions
          /\ cards' = cards
          /\ stats' = stats
          /\ answersMap' = answersMap]_vars

\* such an event has reached a MULTIPLE question that is correct
C5_Witness ==
    /\ ev.op = "dispatch"
    /\ ev.pre = "correct"
    /\ questions[ev.idx].type = "MULTIPLE"
    /\ questions[ev.idx].status = "correct"

SameQuestion(a, b) == a.id = b.id /\ a.text = b.text /\ a.choices = b.choices

\* C6 as stated: once correct or incorrect, the status of a question stays
\* what it is in every step that is not a reset (a reset empties the list).
C6_MonotonicUnderAllEvents ==
    [][\A i \in DOMAIN questions :
          (/\ Terminal(questions[i])
           /\ i \in DOMAIN questions'
           /\ SameQuestion(questions'[i], questions[i])) =>
              questions'[i].status = questions[i].status]_vars

\* C6: once correct or incorrect, the status of a question is changed by no
\* change event of an input; any other step either leaves the questions and
\* the counters alone or starts every question over: each status unanswered
\* or ungraded, the correct and incorrect counters zero.
C6_MonotonicUnderSelections ==
    [][\A i \in DOMAIN questions :
          Terminal(questions[i]) =>
              /\ ev'.op \in {"select", "dispatch"} =>
                    questions'[i].status = questions[i].status
              /\ ev'.op \notin {"select", "dispatch"} =>
                    \/ questions' = questions /\ stats' = stats
                    \/ /\ \A k \in DOMAIN questions' :
                              questions'[k].status \in {"unanswered", "ungraded"}
                       /\ stats'.correct = 0
                       /\ stats'.incorrect = 0]_vars

\* a question that was answered is open again: its inputs are enabled, its
\* status is unanswered and it still holds the keys of the earlier attempt
C6_Witness ==
    \E i \in DOMAIN cards :
        /\ questions[i].status = "unanswered"
        /\ questions[i].userSelectedKeys # UndefinedSeq
        /\ ~cards[i].disabled

\* C7: a question with empty correctKeys never has status correct, and every
\* selection on it, SINGLE or MULTIPLE, leaves it incorrect.
C7_NeverCorrect ==
    \A i \in DOMAIN questions :
        questions[i].correctKeys = <<>> =>
            /\ questions[i].status # "correct"
            /\ (ev.op = "select" /\ ev.idx = i) => questions[i].status = "incorrect"

\* a MULTIPLE question without an answer after its first toggle
C7_Witness ==
    /\ Selected("ungraded", "MULTIPLE")
    /\ questions[ev.idx].correctKeys = <<>>
    /\ questions[ev.idx].status = "incorrect"

\* C8 as stated: a selection on an ungraded question leaves it ungraded.
C8_UngradedStaysUngraded ==
    (ev.op = "select" /\ ev.pre = "ungraded") => questions[ev.idx].status = "ungraded"

\* C8: no change event of an input makes a question ungraded, and the first
\* selection on an ungraded question makes it incorrect: ungraded is set by
\* the matcher alone and it is not terminal.
C8_UngradedByMatcherOnly ==
    [][/\ ev'.op \in {"select", "dispatch"} =>
             \A i \in DOMAIN questions :
                 questions'[i].status = "ungraded" => questions[i].status = "ungraded"
       /\ (ev'.op = "select" /\ questions[ev'.idx].status = "ungraded") =>
             questions'[ev'.idx].status = "incorrect"]_vars

\* a SINGLE question without an answer after its selection
C8_Witness ==
    /\ Selected("ungraded", "SINGLE")
    /\ questions[ev.idx].status = "incorrect"
    /\ questions[ev.idx].userSelectedKeys = <<ev.key>>

\* no input of the card was touched since it was rendered
Untouched(card) == ~card.disabled /\ CheckedSet(card) = {}

C10_ExplicitTypeWins ==
    \A i \in DOMAIN cards :
        /\ questions[i].explicitType # Null => questions[i].type = questions[i].explicitType
        /\ questions[i].id = <<"1">> =>
              questions[i].explicitType = "SINGLE" /\ questions[i].type = "SINGLE"
        /\ questions[i].id = <<"7">> =>
              questions[i].explicitType = "MULTIPLE" /\ questions[i].type = "MULTIPLE"

\* a [Single] question with two correct keys beside a [Multiple] question
\* without an answer
C10_Witness ==
    \E i, k \in DOMAIN cards :
        /\ questions[i].explicitType = "SINGLE"
        /\ Len(questions[i].correctKeys) = 2
        /\ questions[i].type = "SINGLE"
        /\ questions[k].explicitType = "MULTIPLE"
        /\ questions[k].status = "ungraded"
        /\ questions[k].type = "MULTIPLE"

(***************************************************************************)
(* The parsers, the matcher and the percentage called on their own, on     *)
(* texts made of a few kinds of lines                                      *)
(***************************************************************************)
\* how many lines a text given to a parser has at most
MaxLines == 4

\* the lines of an answers text, each with what it is: the start of an
\* answer (with its id and its keys), an explanation start, another line or
\* a blank line
AnswerLines ==
    << [text |-> <<"1", ".", " ", "C", "o", "r", "r", "e", "c", "t", ":", " ", "A">>,
        kind |-> "start", id |-> <<"1">>, keys |-> <<"A">>, rest |-> <<>>],
       [text |-> <<"1", ".", " ", "C", "o", "r", "r", "e", "c", "t", ":", " ",
                   "B", ",", " ", "C">>,
        kind |-> "start", id |-> <<"1">>, keys |-> <<"B", "C">>, rest |-> <<>>],
       [text |-> <<"2", ".", " ", "c", "o", "r", "r", "e", "c", "t", ":", " ",
                   "a", ",", "a">>,
        kind |-> "start", id |-> <<"2">>, keys |-> <<"A", "A">>, rest |-> <<>>],
       [text |-> <<"E", "x", "p", "l", "a", "n", "a", "t", "i", "o", "n", ":", " ", "e">>,
        kind |-> "explanation", id |-> <<>>, keys |-> <<>>, rest |-> <<"e">>],
       [text |-> <<" ", "n", "o", "t", "e">>,
        kind |-> "other", id |-> <<>>, keys |-> <<>>, rest |-> <<"n", "o", "t", "e">>],
       [text |-> <<>>,
        kind |-> "blank", id |-> <<>>, keys |-> <<>>, rest |-> <<>>] >>

\* the texts of at most MaxLines lines of an alphabet, as sequences of
\* indexes into it
LineChoices(alphabet) == UNION {[1..n -> DOMAIN alphabet] : n \in 0..MaxLines}

\* the text whose lines are the chosen lines of the alphabet
TextOf(alphabet, choice) ==
    IF choice = <<>> THEN <<>>
    ELSE JoinLines([k \in DOMAIN choice |-> alphabet[choice[k]].text])

\* two questions without a type tag: 1. t / A. x / B. y / 2. u / A. x
UntaggedQuestionsText ==
    JoinLines(<< <<"1", ".", " ", "t">>,
                 <<"A", ".", " ", "x">>,
                 <<"B", ".", " ", "y">>,
                 <<"2", ".", " ", "u">>,
                 <<"A", ".", " ", "x">> >>)

\* processAndRender on the two untagged questions and the answers parsed
\* from the chosen lines; it runs only when there is an answer
\* (checkReadyToRender).  The functions called on their own keep nothing
\* between calls, so a behaviour observes one call.
CallMatch(choice) ==
    /\ call = NoCall
    /\ DOMAIN parseAnswersText(TextOf(AnswerLines, choice)) # {}
    /\ call' = [fn |-> "processAndRender",
                arg |-> choice,
                result |-> processAndRender(
                               parseQuestionsText(UntaggedQuestionsText),
                               parseAnswersText(TextOf(AnswerLines, choice))).questions]
    /\ UNCHANGED <<questions, answersMap, stats, cards, inflight, uploads, ev>>

\* C11 as stated: after matching, a question without a type tag is MULTIPLE
\* exactly when its correctKeys hold more than one distinct letter, and
\* SINGLE otherwise.
C11_TypeFromDistinctKeys ==
    call.fn = "processAndRender" =>
        \A i \in DOMAIN call.result :
            call.result[i].explicitType = Null =>
                call.result[i].type =
                    IF Cardinality(AsSet(call.result[i].correctKeys)) > 1
                    THEN "MULTIPLE" ELSE "SINGLE"

Resolved(q) == q.type \in {"SINGLE", "MULTIPLE"}

\* C12 as stated: once the type of a question is resolved, no step changes
\* the type of that question.
C12_TypeFixed ==
    [][\A i \in DOMAIN questions :
          (/\ Resolved(questions[i])
           /\ i \in DOMAIN questions'
           /\ SameQuestion(questions'[i], questions[i])) =>
              questions'[i].type = questions[i].type]_vars

\* C12: no change event of an input changes the type of a question, and no
\* step changes the type of a question with a type tag; every matching
\* resolves the type anew, so a resolved type is the explicit type or else
\* MULTIPLE exactly when the current correctKeys are more than one.
C12_TypeFromLastMatching ==
    [][\A i \in DOMAIN questions :
          Resolved(questions[i]) =>
              /\ ev'.op \in {"select", "dispatch"} =>
                    questions'[i].type = questions[i].type
              /\ (/\ i \in DOMAIN questions'
                  /\ SameQuestion(questions'[i], questions[i])
                  /\ questions[i].explicitType # Null) =>
                    questions'[i].type = questions[i].type
              /\ (i \in DOMAIN questions' /\ Resolved(questions'[i])) =>
                    questions'[i].type =
                        IF questions'[i].explicitType # Null
                        THEN questions'[i].explicitType
                        ELSE IF Len(questions'[i].correctKeys) > 1
                        THEN "MULTIPLE" ELSE "SINGLE"]_vars

\* an untagged question is SINGLE now and holds the two keys with which it
\* was answered as a MULTIPLE question
C12_Witness ==
    \E i \in DOMAIN cards :
        /\ questions[i].explicitType = Null
        /\ questions[i].type = "SINGLE"
        /\ questions[i].userSelectedKeys # UndefinedSeq
        /\ Len(questions[i].userSelectedKeys) = 2

\* how many loaded questions have the status st
CountStatus(qs, st) == Cardinality({k \in DOMAIN qs : qs[k].status = st})

CountersMatch ==
    /\ stats.correct = CountStatus(questions, "correct")
    /\ stats.incorrect = CountStatus(questions, "incorrect")

\* C13: in every state the counter correct is the number of questions with
\* status correct and the counter incorrect the number with status
\* incorrect; a change event that makes a question correct adds 1 to correct
\* and nothing to incorrect, one that makes it incorrect adds 1 to incorrect
\* and nothing to correct, and any other change event leaves both alone.
C13_CountersCountStatuses ==
    /\ []CountersMatch
    /\ [][ev'.op \in {"select", "dispatch"} =>
             LET before == questions[ev'.idx]
                 after == questions'[ev'.idx]
             IN  /\ stats'.total = stats.total
                 /\ stats'.correct = stats.correct +
                       (IF ~Terminal(before) /\ after.status = "correct" THEN 1 ELSE 0)
                 /\ stats'.incorrect = stats.incorrect +
                       (IF ~Terminal(before) /\ after.status = "incorrect" THEN 1 ELSE 0)]_vars

\* one question was answered correctly and then another one incorrectly
C13_Witness ==
    /\ ev.op = "select"
    /\ questions[ev.idx].status = "incorrect"
    /\ stats.correct = 1
    /\ stats.incorrect = 1
    /\ CountStatus(questions, "correct") = 1

\* C14 as stated: in a step that is not a confirmed reset neither the
\* counter correct nor the counter incorrect decreases.
C14_CountersNeverDecrease ==
    [][ev'.op # "reset" =>
          /\ stats'.correct >= stats.correct
          /\ stats'.incorrect >= stats.incorrect]_vars

\* C14: no change event of an input decreases a counter; a step in which a
\* counter decreases sets both to zero and leaves no question with status
\* correct or incorrect (a run of the matcher or a reset).
C14_CountersDecreaseOnlyToZero ==
    [][/\ ev'.op \in {"select", "dispatch"} =>
             /\ stats'.correct >= stats.correct
             /\ stats'.incorrect >= stats.incorrect
       /\ (stats'.correct < stats.correct \/ stats'.incorrect < stats.incorrect) =>
             /\ stats'.correct = 0
             /\ stats'.incorrect = 0
             /\ \A k \in DOMAIN questions' : ~Terminal(questions'[k])]_vars

\* the counters are zero again although a loaded question holds the keys of
\* an earlier attempt
C14_Witness ==
    /\ questions # <<>>
    /\ stats.correct = 0
    /\ stats.incorrect = 0
    /\ stats.total = Len(questions)
    /\ \E i \in DOMAIN questions : questions[i].userSelectedKeys # UndefinedSeq

(***************************************************************************)
(* updateScoreboard: the percentage, in IEEE 754 double arithmetic         *)
(*                                                                         *)
(* A positive double is [m, e]: m the 53 bits of its significand, first    *)
(* bit 1, and e the exponent of that first bit: the value is the sum of    *)
(* m[k] * 2^(e - k + 1).                                                   *)
(***************************************************************************)
\* the bits of a double's significand
SignificandBits == 53

Zeros(k) == [j \in 1..k |-> 0]

\* the bit string plus one; the string is not all ones
Increment(m) ==
    [k \in DOMAIN m |->
        IF k < MaxOf({z \in DOMAIN m : m[z] = 0}) THEN m[k]
        ELSE IF k = MaxOf({z \in DOMAIN m : m[z] = 0}) THEN 1
        ELSE 0]

\* round to nearest, ties to even: m holds the first 53 bits of the exact
\* value, guard is the next bit and sticky tells whether any later bit is 1
RoundToDouble(m, e, guard, sticky) ==
    IF ~(guard = 1 /\ (sticky \/ m[SignificandBits] = 1)) THEN [m |-> m, e |-> e]
    ELSE IF \A k \in DOMAIN m : m[k] = 1
    THEN [m |-> <<1>> \o Zeros(SignificandBits - 1), e |-> e + 1]
    ELSE [m |-> Increment(m), e |-> e]

\* r * 2^j for the least j with 2 * r * 2^j >= n, where 0 < r < n: the
\* remainder from which the first 1 bit of r / n is produced
RECURSIVE Shifted(_, _)
Shifted(r, n) == IF 2 * r >= n THEN r ELSE Shifted(2 * r, n)

\* the exponent of the first 1 bit of r / n, where 0 < r < n, counted from e
RECURSIVE LeadingExponent(_, _, _)
LeadingExponent(r, n, e) ==
    IF 2 * r >= n THEN e - 1 ELSE LeadingExponent(2 * r, n, e - 1)

\* k more bits of the quotient by long division, and the remainder left
RECURSIVE DivBits(_, _, _, _)
DivBits(r, n, k, acc) ==
    IF k = 0 THEN [bits |-> acc, r |-> r]
    ELSE DivBits(2 * r - (IF 2 * r >= n THEN n ELSE 0), n, k - 1,
                 Append(acc, IF 2 * r >= n THEN 1 ELSE 0))

RoundQuotient(d, e) ==
    RoundToDouble(SubSeq(d.bits, 1, SignificandBits), e,
                  d.bits[SignificandBits + 1], d.r # 0)

\* the double c / n for integers 0 < c <= n
FloatDivide(c, n) ==
    IF c = n THEN [m |-> <<1>> \o Zeros(SignificandBits - 1), e |-> 0]
    ELSE RoundQuotient(DivBits(Shifted(c, n), n, SignificandBits + 1, <<>>),
                       LeadingExponent(c, n, 0))

\* the carry into position k of the sum of two bit strings: some later
\* position generates a carry and every position between passes it on
CarryInto(a, b, k) ==
    IF \E j \in (k + 1)..Len(a) :
           /\ a[j] = 1 /\ b[j] = 1
           /\ \A t \in (k + 1)..(j - 1) : a[t] + b[t] >= 1
    THEN 1 ELSE 0

\* the sum of two bit strings of the same length, without the last carry
AddBits(a, b) ==
    SubSeq([k \in DOMAIN a |-> (a[k] + b[k] + CarryInto(a, b, k)) % 2], 1, Len(a))

\* the bit string m * 2^shift, written with width bits
ShiftedTo(m, shift, width) == Zeros(width - Len(m) - shift) \o m \o Zeros(shift)

\* m * 100 = m * 64 + m * 32 + m * 4, exactly, in 60 bits
Times100Bits(m) ==
    AddBits(AddBits(ShiftedTo(m, 6, 60), ShiftedTo(m, 5, 60)), ShiftedTo(m, 2, 60))

\* the double nearest to the exact product p (60 bits, the last of them of
\* weight 2^(e - 52)), whose first 1 bit is at position j
RoundProduct(p, j, e) ==
    RoundToDouble(SubSeq(p, j, j + SignificandBits - 1), e + 8 - j,
                  p[j + SignificandBits],
                  \E k \in (j + SignificandBits + 1)..Len(p) : p[k] = 1)

FirstOne(p) == MinOf({k \in DOMAIN p : p[k] = 1})

\* the double x * 100
FloatTimes100(x) ==
    RoundProduct(Times100Bits(x.m), FirstOne(Times100Bits(x.m)), x.e)

\* the number a bit string writes
RECURSIVE BitsValue(_)
BitsValue(bits) ==
    IF bits = <<>> THEN 0
    ELSE 2 * BitsValue(SubSeq(bits, 1, Len(bits) - 1)) + bits[Len(bits)]

\* Math.round(x) for a double 0 < x < 2^52: floor(x + 0.5), which is the
\* integer part plus the bit of weight 1/2
MathRound(x) ==
    (IF x.e >= 0 THEN BitsValue(SubSeq(x.m, 1, x.e + 1)) ELSE 0)
        + (IF x.e + 2 \in DOMAIN x.m THEN x.m[x.e + 2] ELSE 0)

\* answered > 0 ? Math.round((state.stats.correct / answered) * 100) : 0
Percent(correct, incorrect) ==
    IF correct + incorrect > 0
    THEN IF correct = 0 THEN 0
         ELSE MathRound(FloatTimes100(FloatDivide(correct, correct + incorrect)))
    ELSE 0

\* the largest value of each counter when the percentage is called on its own
MaxCount == 23

\* updateScoreboard (and showResults) computes the percentage of the counters
CallPercent(correct, incorrect) ==
    /\ call = NoCall
    /\ call' = [fn |-> "percent",
                arg |-> <<correct, incorrect>>,
                result |-> Percent(correct, incorrect)]
    /\ UNCHANGED <<questions, answersMap, stats, cards, inflight, uploads, ev>>

\* the lines of a questions text, each with what it is: the start of a
\* question (with its id), a choice, another line or a blank line
QuestionLines ==
    << [text |-> <<"1", ".", " ", "t">>, kind |-> "start", id |-> <<"1">>],
       [text |-> <<"Q", "2", " ", "[", "M", "u", "l", "t", "i", "p", "l", "e", "]">>,
        kind |-> "start", id |-> <<"2">>],
       [text |-> <<" ", "1", ":", " ", "u">>, kind |-> "start", id |-> <<"1">>],
       [text |-> <<"A", ".", " ", "x">>, kind |-> "choice", id |-> <<>>],
       [text |-> <<"n", "o", "t", "e">>, kind |-> "other", id |-> <<>>],
       [text |-> <<>>, kind |-> "blank", id |-> <<>>] >>

\* parseQuestionsText on the text of the chosen lines
CallParseQuestions(choice) ==
    /\ call = NoCall
    /\ call' = [fn |-> "parseQuestionsText",
                arg |-> choice,
                result |-> parseQuestionsText(TextOf(QuestionLines, choice))]
    /\ UNCHANGED <<questions, answersMap, stats, cards, inflight, uploads, ev>>

\* parseAnswersText on the text of the chosen lines
CallParseAnswers(choice) ==
    /\ call = NoCall
    /\ call' = [fn |-> "parseAnswersText",
                arg |-> choice,
                result |-> parseAnswersText(TextOf(AnswerLines, choice))]
    /\ UNCHANGED <<questions, answersMap, stats, cards, inflight, uploads, ev>>

\* a response whose questions part holds no question:
\* Part 1 - Questions / note / Part 2 - Answers / 2. Correct: B
GeneratedTextI ==
    JoinLines(<< <<"P", "a", "r", "t", " ", "1", " ", "-", " ", "Q", "u", "e", "s",
                   "t", "i", "o", "n", "s">>,
                 <<"n", "o", "t", "e">>,
                 <<"P", "a", "r", "t", " ", "2", " ", "-", " ", "A", "n", "s", "w",
                   "e", "r", "s">>,
                 <<"2", ".", " ", "C", "o", "r", "r", "e", "c", "t", ":", " ", "B">> >>)

\* a response whose answers part holds no answer:
\* 2. t / A. a / Answer Key and Explanations / none
GeneratedTextJ ==
    JoinLines(<< <<"2", ".", " ", "t">>,
                 <<"A", ".", " ", "a">>,
                 <<"A", "n", "s", "w", "e", "r", " ", "K", "e", "y", " ", "a", "n",
                   "d", " ", "E", "x", "p", "l", "a", "n", "a", "t", "i", "o", "n",
                   "s">>,
                 <<"n", "o", "n", "e">> >>)

\* the responses handed to processGeneratedText, each with what it holds:
\* the ids of its questions and of its answers when both parts are there
GeneratedOutcomes ==
    << [text |-> GeneratedTextG, kind |-> "ok",
        qids |-> << <<"2">>, <<"2">> >>, aids |-> { <<"2">> }],
       [text |-> GeneratedTextH, kind |-> "no separator", qids |-> <<>>, aids |-> {}],
       [text |-> GeneratedTextI, kind |-> "no question", qids |-> <<>>, aids |-> {}],
       [text |-> GeneratedTextJ, kind |-> "no answer", qids |-> <<>>, aids |-> {}] >>

\* the sessions processGeneratedText is called in: nothing loaded, questions
\* loaded without answers, and two questions matched with an answer for one
SessionsBefore ==
    << [questions |-> <<>>, answersMap |-> EmptyMap, stats |-> ZeroStats, cards |-> <<>>],
       [questions |-> parseQuestionsText(UntaggedQuestionsText), answersMap |-> EmptyMap,
        stats |-> ZeroStats, cards |-> <<>>],
       UpdateState(parseAnswersText(AnswerLines[1].text),
                   processAndRender(parseQuestionsText(UntaggedQuestionsText),
                                    parseAnswersText(AnswerLines[1].text))) >>

\* processGeneratedText on a response, in a session
CallProcessGenerated(b, g) ==
    /\ call = NoCall
    /\ call' = [fn |-> "processGeneratedText",
                arg |-> <<b, g>>,
                result |-> processGeneratedText(SessionsBefore[b], GeneratedOutcomes[g].text)]
    /\ UNCHANGED <<questions, answersMap, stats, cards, inflight, uploads, ev>>

(***************************************************************************)
(* The earlier copy of parseQuestionsText in script.js: it differs from    *)
(* the later one in the separator of a continuation line                   *)
(***************************************************************************)
\* currentQ.choices[last].text += ' ' + line
AppendToLastChoiceEarlier(q, line) ==
    [q EXCEPT !.choices[Len(q.choices)].text = @ \o <<" ">> \o line]

\* currentQ.text += (currentQ.text ? ' ' : '') + line
AppendToStemEarlier(q, line) ==
    [q EXCEPT !.text = IF @ = <<>> THEN line ELSE @ \o <<" ">> \o line]

\* one iteration of the loop over the lines
QuestionsLineEarlier(acc, line, qMatch, cMatch, i) ==
    IF line = <<>> THEN acc
    ELSE IF qMatch.matched
    THEN [questions |-> acc.questions \o acc.currentQ,
          currentQ |-> <<NewQuestion(qMatch, i)>>]
    ELSE IF acc.currentQ = <<>> THEN acc
    ELSE IF cMatch.matched
    THEN [acc EXCEPT !.currentQ[1].choices =
             Append(@, [key |-> toUpperCaseChar(cMatch.key), text |-> cMatch.text])]
    ELSE IF Len(acc.currentQ[1].choices) > 0
    THEN [acc EXCEPT !.currentQ = <<AppendToLastChoiceEarlier(acc.currentQ[1], line)>>]
    ELSE [acc EXCEPT !.currentQ = <<AppendToStemEarlier(acc.currentQ[1], line)>>]

RECURSIVE QuestionsLoopEarlier(_, _, _)
QuestionsLoopEarlier(lines, i, acc) ==
    IF i > Len(lines) THEN acc
    ELSE QuestionsLoopEarlier(lines, i + 1,
             QuestionsLineEarlier(acc, trim(lines[i]), qStartRegex(trim(lines[i])),
                                  choiceRegex(trim(lines[i])), i))

parseQuestionsTextEarlier(text) ==
    LET acc == QuestionsLoopEarlier(SplitLines(text), 1,
                                    [questions |-> <<>>, currentQ |-> <<>>])
    IN  acc.questions \o acc.currentQ

\* the parseQuestionsText of the earlier copy on the text of the chosen lines
CallParseQuestionsEarlier(choice) ==
    /\ call = NoCall
    /\ call' = [fn |-> "parseQuestionsText (earlier copy)",
                arg |-> choice,
                result |-> parseQuestionsTextEarlier(TextOf(QuestionLines, choice))]
    /\ UNCHANGED <<questions, answersMap, stats, cards, inflight, uploads, ev>>

FunctionsNext ==
    \/ \E choice \in LineChoices(QuestionLines) : CallParseQuestionsEarlier(choice)
    \/ \E b \in DOMAIN SessionsBefore, g \in DOMAIN GeneratedOutcomes :
           CallProcessGenerated(b, g)
    \/ \E choice \in LineChoices(AnswerLines) : CallMatch(choice)
    \/ \E choice \in LineChoices(AnswerLines) : CallParseAnswers(choice)
    \/ \E choice \in LineChoices(QuestionLines) : CallParseQuestions(choice)
    \/ \E correct, incorrect \in 0..MaxCount : CallPercent(correct, incorrect)

FunctionsSpec == Init /\ [][FunctionsNext]_vars

\* C15 as stated: the percentage is correct / (correct + incorrect) * 100
\* rounded to the nearest integer with halves rounded up, which is
\* floor((200 * correct + answered) / (2 * answered)); it is 0 when nothing
\* is answered, lies in 0..100, and is 75 for correct = 3 and incorrect = 1.
C15_PercentRoundsHalfUp ==
    call.fn = "percent" =>
        LET correct == call.arg[1]
            answered == call.arg[1] + call.arg[2]
        IN  /\ call.result \in 0..100
            /\ answered = 0 => call.result = 0
            /\ answered > 0 =>
                  call.result = (200 * correct + answered) \div (2 * answered)
            /\ call.arg = <<3, 1>> => call.result = 75

\* C16: an upload whose text parses to zero questions, or to zero answers,
\* commits nothing: the questions with their statuses, the answers map, the
\* counters and the rendered cards are what they were before it.
C16_EmptyParseCommitsNothing ==
    [][ev'.op = "rejected" => UNCHANGED <<questions, answersMap, stats, cards>>]_vars

\* a questions upload is rejected in a session with answers and an answered
\* question
C16_Witness ==
    /\ ev.op = "rejected"
    /\ ev.key = "questions"
    /\ DOMAIN answersMap # {}
    /\ \E i \in DOMAIN questions : Terminal(questions[i])

\* C17: a confirmed reset leaves the question list empty, the answers map
\* empty and total, correct and incorrect at 0 (and no card on the page); a
\* reset declined at the confirmation changes no part of the state.
C17_ResetDiscardsOrKeeps ==
    [][/\ ev'.op = "reset" =>
            /\ questions' = <<>>
            /\ DOMAIN answersMap' = {}
            /\ stats' = [total |-> 0, correct |-> 0, incorrect |-> 0]
            /\ cards' = <<>>
       /\ ev'.op = "declined" =>
            UNCHANGED <<questions, answersMap, stats, cards, inflight, uploads>>]_vars

\* a session with questions was reset
C17_Witness ==
    /\ ev.op = "reset"
    /\ ev.idx > 0
    /\ questions = <<>>

\* the positions, in increasing order, of the lines of the given kind among
\* the chosen lines of an alphabet
PositionsOf(alphabet, choice, kind) ==
    LET IsKind(p) == alphabet[choice[p]].kind = kind
    IN  SelectSeq([p \in DOMAIN choice |-> p], IsKind)

\* C18: parseQuestionsText returns exactly one question per question-start
\* line, in source order: the k-th question returned has the id of the k-th
\* question-start line and that line's number, whatever other lines the text
\* holds, whether or not choices follow, and also for the last start line.
C18_OneQuestionPerStartLine ==
    call.fn = "parseQuestionsText" =>
        LET starts == PositionsOf(QuestionLines, call.arg, "start")
        IN  /\ Len(call.result) = Len(starts)
            /\ \A k \in DOMAIN starts :
                  /\ call.result[k].rawLine = starts[k]
                  /\ call.result[k].id = QuestionLines[call.arg[starts[k]]].id

\* a text of a start line, a line of another kind and a last start line:
\* two questions without a choice are returned
C18_Witness ==
    /\ call.fn = "parseQuestionsText"
    /\ Len(call.arg) = 3
    /\ QuestionLines[call.arg[1]].kind = "start"
    /\ QuestionLines[call.arg[2]].kind = "other"
    /\ QuestionLines[call.arg[3]].kind = "start"
    /\ Len(call.result) = 2
    /\ \A k \in 1..2 : call.result[k].choices = <<>>

\* the explanation written by the chosen answer lines p..q that follow an
\* answer-start line: an explanation line sets it, another line is appended
\* to it after a line break, a blank line is skipped
RECURSIVE ExplanationOfLines(_, _, _, _)
ExplanationOfLines(choice, p, q, acc) ==
    IF p > q THEN acc
    ELSE LET line == AnswerLines[choice[p]]
         IN  ExplanationOfLines(choice, p + 1, q,
                 IF line.kind = "explanation" THEN line.rest
                 ELSE IF line.kind = "blank" THEN acc
                 ELSE IF acc = <<>> THEN line.rest
                 ELSE acc \o <<"\n">> \o line.rest)

\* the position of the last answer-start line with the given id, and the
\* position of the last line before the next answer-start line
LastStartOf(choice, id) ==
    CHOOSE p \in DOMAIN choice :
        /\ AnswerLines[choice[p]].kind = "start"
        /\ AnswerLines[choice[p]].id = id
        /\ \A r \in DOMAIN choice :
              (AnswerLines[choice[r]].kind = "start" /\ AnswerLines[choice[r]].id = id)
                  => r <= p

EndOfBlock(choice, p) ==
    IF \E r \in DOMAIN choice : r > p /\ AnswerLines[choice[r]].kind = "start"
    THEN (CHOOSE r \in DOMAIN choice :
              /\ r > p
              /\ AnswerLines[choice[r]].kind = "start"
              /\ \A t \in (p + 1)..(r - 1) : AnswerLines[choice[t]].kind # "start") - 1
    ELSE Len(choice)

\* C19: the map returned by parseAnswersText has one entry per distinct id
\* among the answer-start lines, and the entry of an id holds the correctKeys
\* and the explanation of the last answer-start line with that id.
C19_LastWriteWins ==
    call.fn = "parseAnswersText" =>
        LET starts == PositionsOf(AnswerLines, call.arg, "start")
            ids == {AnswerLines[call.arg[starts[k]]].id : k \in DOMAIN starts}
        IN  /\ DOMAIN call.result = ids
            /\ \A id \in ids :
                  LET p == LastStartOf(call.arg, id)
                  IN  /\ call.result[id].id = id
                      /\ call.result[id].correctKeys = AnswerLines[call.arg[p]].keys
                      /\ call.result[id].explanation =
                             ExplanationOfLines(call.arg, p + 1,
                                                EndOfBlock(call.arg, p), <<>>)

\* id 1 starts two answers, the first with an explanation: the entry holds
\* the keys of the second and no explanation
C19_Witness ==
    /\ call.fn = "parseAnswersText"
    /\ call.arg = <<1, 4, 2>>
    /\ DOMAIN call.result = {<<"1">>}
    /\ call.result[<<"1">>].correctKeys = <<"B", "C">>
    /\ call.result[<<"1">>].explanation = <<>>

\* C20 as stated: userSelectedKeys lists the letters in the order the user
\* selected them, so when a selection fails a MULTIPLE question the letter
\* selected last, the one of that event, is the last of userSelectedKeys
\* (selecting B, then C, then A ends with [B, C, A]).
C20_SelectionOrder ==
    (Selected("unanswered", "MULTIPLE") /\ questions[ev.idx].status = "incorrect")
        => LET u == questions[ev.idx].userSelectedKeys
           IN  u[Len(u)] = ev.key

\* C20 as the code has it: when a selection ends a MULTIPLE question,
\* userSelectedKeys is the sequence of the letters whose inputs are checked,
\* in the order of the question's choices, whatever the order in which they
\* were selected.
C20_ChoiceOrder ==
    (Selected("unanswered", "MULTIPLE") /\ Terminal(questions[ev.idx]))
        => LET q == questions[ev.idx]
               labels == cards[ev.idx].labels
               IsChecked(l) == labels[l].checked
               checked == SelectSeq([l \in DOMAIN q.choices |-> l], IsChecked)
           IN  /\ Len(q.userSelectedKeys) = Len(checked)
               /\ \A k \in DOMAIN checked :
                      q.userSelectedKeys[k] = q.choices[checked[k]].key

\* the question with choices A to D and correctKeys B, C, D after B and C
\* were checked and A was selected: incorrect with userSelectedKeys A, B, C
C20_Witness ==
    /\ Selected("unanswered", "MULTIPLE")
    /\ ev.key = "A"
    /\ questions[ev.idx].correctKeys = <<"B", "C", "D">>
    /\ questions[ev.idx].status = "incorrect"
    /\ questions[ev.idx].userSelectedKeys = <<"A", "B", "C">>

(***************************************************************************)
(* Results and export                                                      *)
(***************************************************************************)
\* q.status === 'incorrect'
IsIncorrect(q) == q.status = "incorrect"

\* a filter that keeps every answered question
IsAnswered(q) == q.status \in {"correct", "incorrect"}

\* a list of every answered question
FilterAnswered(qs) == SelectSeq(qs, IsAnswered)

\* state.questions.filter(q => q.status === 'incorrect')
FilterIncorrect(qs) == SelectSeq(qs, IsIncorrect)

\* showResults: the summary counters, and the entries of the list of wrong
\* answers with what each entry shows
SummaryPercent(st) == Percent(st.correct, st.incorrect)

showResults(qs, st) ==
    [summaryTotal |-> st.total,
     summaryCorrect |-> st.correct,
     summaryIncorrect |-> st.incorrect,
     wrongAnswersList |->
         LET wrongQs == FilterIncorrect(qs)
         IN  [k \in DOMAIN wrongQs |->
                 [id |-> wrongQs[k].id,
                  text |-> wrongQs[k].text,
                  userSelectedKeys |-> IF wrongQs[k].userSelectedKeys = UndefinedSeq
                                       THEN <<>> ELSE wrongQs[k].userSelectedKeys,
                  correctKeys |-> wrongQs[k].correctKeys,
                  explanation |-> wrongQs[k].explanation]]]

\* exportResults: the data of the JSON document, without its timestamp
exportResults(qs, st) ==
    [stats |-> st,
     incorrectQuestions |->
         LET wrongQs == FilterIncorrect(qs)
         IN  [k \in DOMAIN wrongQs |->
                 [id |-> wrongQs[k].id,
                  text |-> wrongQs[k].text,
                  userSelected |-> wrongQs[k].userSelectedKeys,
                  correct |-> wrongQs[k].correctKeys,
                  explanation |-> wrongQs[k].explanation]]]

\* the positions of the questions with the given status, in increasing order
StatusPositions(qs, st) ==
    LET HasStatus(i) == qs[i].status = st
    IN  SelectSeq([i \in DOMAIN qs |-> i], HasStatus)

\* C21: in every reachable state the summary and the export list exactly the
\* loaded questions whose status is incorrect, in source order, each with its
\* id, text, userSelectedKeys, correctKeys and explanation; the number of
\* entries equals the exported stats.incorrect.
C21_ListsTheIncorrect ==
    LET wrong == StatusPositions(questions, "incorrect")
        shown == showResults(questions, stats)
        data == exportResults(questions, stats)
    IN  /\ Len(shown.wrongAnswersList) = Len(wrong)
        /\ Len(data.incorrectQuestions) = Len(wrong)
        /\ data.stats.incorrect = Len(wrong)
        /\ shown.summaryIncorrect = Len(wrong)
        /\ \A k \in DOMAIN wrong :
              LET q == questions[wrong[k]]
              IN  /\ shown.wrongAnswersList[k] =
                         [id |-> q.id, text |-> q.text,
                          userSelectedKeys |-> q.userSelectedKeys,
                          correctKeys |-> q.correctKeys,
                          explanation |-> q.explanation]
                  /\ data.incorrectQuestions[k] =
                         [id |-> q.id, text |-> q.text,
                          userSelected |-> q.userSelectedKeys,
                          correct |-> q.correctKeys,
                          explanation |-> q.explanation]

\* two questions are loaded, the second is incorrect and the first is
\* correct: the lists hold the second only
C21_Witness ==
    /\ Len(questions) = 2
    /\ questions[1].status = "correct"
    /\ questions[2].status = "incorrect"
    /\ Len(exportResults(questions, stats).incorrectQuestions) = 1
    /\ exportResults(questions, stats).incorrectQuestions[1].id = questions[2].id

\* how many inputs of a card are checked
CheckedCount(card) == Cardinality({l \in DOMAIN card.labels : card.labels[l].checked})

\* what a card shows besides the checked state of its inputs
Feedback(card) ==
    [classes |-> [l \in DOMAIN card.labels |-> card.labels[l].classes],
     disabled |-> card.disabled,
     expHidden |-> card.expHidden,
     statusIcon |-> card.statusIcon]

\* C22: the change event of an input that the user unchecks on an unanswered
\* MULTIPLE question changes neither the status, userSelectedKeys or any
\* other field of a question, nor the markers of the card, nor the counters.
C22_UncheckChangesNothing ==
    [][(/\ ev'.op = "select"
        /\ ev'.pre = "unanswered"
        /\ questions[ev'.idx].type = "MULTIPLE"
        /\ CheckedCount(cards'[ev'.idx]) < CheckedCount(cards[ev'.idx]))
       => /\ questions' = questions
          /\ stats' = stats
          /\ Feedback(cards'[ev'.idx]) = Feedback(cards[ev'.idx])]_vars

\* a key of an unanswered MULTIPLE question was unchecked while another key
\* stays checked
C22_Witness ==
    /\ Selected("unanswered", "MULTIPLE")
    /\ questions[ev.idx].status = "unanswered"
    /\ \A l \in DOMAIN cards[ev.idx].labels :
          cards[ev.idx].labels[l].key = ev.key => ~cards[ev.idx].labels[l].checked
    /\ CheckedCount(cards[ev.idx]) = 1

\* the keys of the labels of a card that carry the marker class cls
MarkedKeys(card, cls) ==
    {card.labels[l].key : l \in {m \in DOMAIN card.labels : cls \in card.labels[m].classes}}

\* the keys of the checked inputs of a card, and the keys of all its labels
CheckedKeySet(card) ==
    {card.labels[l].key : l \in {m \in DOMAIN card.labels : card.labels[m].checked}}

LabelKeys(card) == {card.labels[l].key : l \in DOMAIN card.labels}

\* C23: when a selection fails a MULTIPLE question at once, the toggled key
\* is the one key marked incorrect, the marked-correct keys are the keys of
\* correctKeys that are checked, the marked-missed keys are the keys of
\* correctKeys that are not checked (as far as the question has a choice
\* with that key), and a label that has a marker is the first label of its
\* key and has one marker; in every reachable state no label carries both a
\* correct and an incorrect marker.
C23_FailureMarkers ==
    /\ \A i \in DOMAIN cards : \A l \in DOMAIN cards[i].labels :
          ~({"correct-choice", "incorrect-choice"} \subseteq cards[i].labels[l].classes)
    /\ (Selected("unanswered", "MULTIPLE") /\ questions[ev.idx].status = "incorrect")
          => LET card == cards[ev.idx]
                 correct == AsSet(questions[ev.idx].correctKeys) \cap LabelKeys(card)
             IN  /\ MarkedKeys(card, "incorrect-choice") = {ev.key}
                 /\ MarkedKeys(card, "correct-choice") = correct \cap CheckedKeySet(card)
                 /\ MarkedKeys(card, "missed-correct") = correct \ CheckedKeySet(card)
                 /\ \A l \in DOMAIN card.labels :
                       card.labels[l].classes # {} =>
                           /\ Cardinality(card.labels[l].classes) = 1
                           /\ \A m \in 1..(l - 1) : card.labels[m].key # card.labels[l].key

\* a failure with a checked correct key, two missed correct keys and the
\* wrong key
C23_Witness ==
    /\ Selected("unanswered", "MULTIPLE")
    /\ questions[ev.idx].status = "incorrect"
    /\ Cardinality(MarkedKeys(cards[ev.idx], "correct-choice")) = 1
    /\ Cardinality(MarkedKeys(cards[ev.idx], "missed-correct")) = 2
    /\ MarkedKeys(cards[ev.idx], "incorrect-choice") = {ev.key}

\* C24: in every reachable state in which a non-empty question list and a
\* non-empty answers map are both loaded the counter total is the number of
\* loaded questions; it is 0 while only one of the two, or neither, is
\* loaded, so also after a confirmed reset.
C24_TotalCountsQuestions ==
    stats.total = IF questions # <<>> /\ DOMAIN answersMap # {}
                  THEN Len(questions) ELSE 0

\* two questions are loaded with answers for one of them only: total is 2
C24_Witness ==
    /\ Len(questions) = 2
    /\ DOMAIN answersMap # {}
    /\ \E i \in DOMAIN questions : questions[i].status = "ungraded"
    /\ stats.total = 2

\* C25: when the generated text has no separator of the answers part, no
\* question or no answer, processGeneratedText leaves questions, answers
\* map, counters and cards as they were; otherwise the questions and the
\* answers map are both those of the text, matched with each other.
C25_GeneratedAllOrNothing ==
    call.fn = "processGeneratedText" =>
        LET before == SessionsBefore[call.arg[1]]
            out == GeneratedOutcomes[call.arg[2]]
            after == call.result
        IN  IF out.kind # "ok" THEN after = before
            ELSE /\ [i \in DOMAIN after.questions |-> after.questions[i].id] = out.qids
                 /\ DOMAIN after.answersMap = out.aids
                 /\ \A i \in DOMAIN after.questions :
                       after.questions[i].correctKeys =
                           after.answersMap[after.questions[i].id].correctKeys
                 /\ after.stats = [total |-> Len(out.qids), correct |-> 0, incorrect |-> 0]

\* a response without an answer arrives in the session with two matched
\* questions, which it leaves loaded
C25_Witness ==
    /\ call.fn = "processGeneratedText"
    /\ GeneratedOutcomes[call.arg[2]].kind = "no answer"
    /\ Len(SessionsBefore[call.arg[1]].questions) = 2
    /\ DOMAIN SessionsBefore[call.arg[1]].answersMap # {}
    /\ call.result.questions = SessionsBefore[call.arg[1]].questions
    /\ call.result.stats.total = 2

\* C26: when the read of a file of an upload fails (the file is the idx-th
\* of the upload), the handler ends without a successor, so the text of the
\* files read before is dropped, and questions with their statuses, answers
\* map, counters and cards are what they were.
C26_UnreadableFileCommitsNothing ==
    [][ev'.op = "unreadable" =>
           /\ UNCHANGED <<questions, answersMap, stats, cards>>
           /\ BagCardinality(inflight') = BagCardinality(inflight) - 1
           /\ BagToSet(inflight') \subseteq BagToSet(inflight)]_vars

\* the second file of a questions upload is unreadable in a session with
\* matched questions
C26_Witness ==
    /\ ev.op = "unreadable"
    /\ ev.key = "questions"
    /\ ev.idx = 2
    /\ questions # <<>>
    /\ stats.total > 0

\* the chosen lines without the last one
Front(choice) == SubSeq(choice, 1, Len(choice) - 1)

\* C27: a last line that is neither blank, nor a question start, nor a choice
\* changes the parse of the lines before it in one place only: the text of
\* the last choice of the last question when that question has a choice,
\* else the stem of the last question; nothing is returned for it when no
\* question is open, and a last line that is a choice is discarded as well
\* when no question is open.
C27_ContinuationGoesToLastOpen ==
    (call.fn = "parseQuestionsText" /\ call.arg # <<>>) =>
        LET last == QuestionLines[call.arg[Len(call.arg)]]
            prev == parseQuestionsText(TextOf(QuestionLines, Front(call.arg)))
            n == Len(prev)
            c == Len(prev[n].choices)
        IN  /\ (last.kind \in {"other", "choice"} /\ n = 0) => call.result = <<>>
            /\ (last.kind = "other" /\ n > 0) =>
                  call.result =
                      IF c > 0
                      THEN [prev EXCEPT ![n].choices[c].text = @ \o <<"\n">> \o last.text]
                      ELSE [prev EXCEPT ![n].text =
                               IF @ = <<>> THEN last.text ELSE @ \o <<"\n">> \o last.text]

\* a question with two choices is followed by another line: the line is in
\* the text of the second choice, and the first choice is as it was
C27_Witness ==
    /\ call.fn = "parseQuestionsText"
    /\ Len(call.arg) = 4
    /\ QuestionLines[call.arg[4]].kind = "other"
    /\ Len(call.result) = 1
    /\ Len(call.result[1].choices) = 2
    /\ call.result[1].choices[1].text = <<"x">>
    /\ call.result[1].choices[2].text = <<"x", "\n", "n", "o", "t", "e">>

\* text ends with the line, after a line break when it holds more
JoinedByLineBreak(text, line) ==
    \/ text = line
    \/ /\ Len(text) > Len(line) + 1
       /\ SubSeq(text, Len(text) - Len(line), Len(text)) = <<"\n">> \o line

\* C28 as stated: in either copy of the questions parser and in the answers
\* parser, a last line that continues a stem, a choice text or an
\* explanation is joined to it with a line break, not with a space.
C28_JoinedWithLineBreak ==
    /\ (/\ call.fn \in {"parseQuestionsText", "parseQuestionsText (earlier copy)"}
        /\ call.arg # <<>>
        /\ QuestionLines[call.arg[Len(call.arg)]].kind = "other"
        /\ call.result # <<>>)
       => LET q == call.result[Len(call.result)]
              line == QuestionLines[call.arg[Len(call.arg)]].text
          IN  IF q.choices # <<>>
              THEN JoinedByLineBreak(q.choices[Len(q.choices)].text, line)
              ELSE JoinedByLineBreak(q.text, line)
    /\ (/\ call.fn = "parseAnswersText"
        /\ call.arg # <<>>
        /\ AnswerLines[call.arg[Len(call.arg)]].kind = "other"
        /\ DOMAIN call.result # {})
       => LET starts == PositionsOf(AnswerLines, call.arg, "start")
              open == AnswerLines[call.arg[starts[Len(starts)]]].id
          IN  JoinedByLineBreak(call.result[open].explanation,
                                AnswerLines[call.arg[Len(call.arg)]].rest)

\* C29 as stated: within every question returned by parseQuestionsText the
\* keys of the choices are pairwise distinct upper-case letters, one choice
\* for each choice line that follows the question's start line.
C29_DistinctChoiceKeys ==
    call.fn = "parseQuestionsText" =>
        LET starts == PositionsOf(QuestionLines, call.arg, "start")
        IN  \A k \in DOMAIN call.result :
               LET choices == call.result[k].choices
                   until == IF k < Len(starts) THEN starts[k + 1] - 1 ELSE Len(call.arg)
               IN  /\ \A a, b \in DOMAIN choices : a # b => choices[a].key # choices[b].key
                   /\ \A a \in DOMAIN choices : choices[a].key \in UpperLetters
                   /\ Len(choices) =
                          Cardinality({p \in starts[k]..until :
                                          QuestionLines[call.arg[p]].kind = "choice"})

RECURSIVE TextRead(_, _)
TextRead(files, n) ==
    IF n = 0 THEN <<>>
    ELSE TextRead(files, n - 1) \o QuestionFiles[files[n]].text \o <<"\n", "\n">>

\* C31: every questions upload in progress holds its files in the order of
\* their names, whatever the order of the selection, has one read pending,
\* that of its next file, and holds as text the texts of the files before
\* that one, concatenated in that order.
C31_SortedSequentialReads ==
    \A h \in BagToSet(inflight) :
        h.handler = "questions" =>
            /\ \A a, b \in DOMAIN h.files :
                  a < b => NameBefore(QuestionFiles[h.files[a]].name,
                                      QuestionFiles[h.files[b]].name)
            /\ h.next \in DOMAIN h.files
            /\ h.allText = TextRead(h.files, h.next - 1)

\* an upload of the files named a and b has read a and waits for b
C31_Witness ==
    \E h \in BagToSet(inflight) :
        /\ h.handler = "questions"
        /\ Len(h.files) = 2
        /\ QuestionFiles[h.files[1]].name = "a"
        /\ QuestionFiles[h.files[2]].name = "b"
        /\ h.next = 2
        /\ h.allText = QuestionFiles[h.files[1]].text \o <<"\n", "\n">>

C33_ResetIsFinal ==
    [][ev.op = "reset" =>
          /\ questions' = <<>>
          /\ DOMAIN answersMap' = {}
          /\ stats' = ZeroStats]_vars

\* C34: a selection on one question changes the status, userSelectedKeys and
\* markers of that question only: every other question record and the
\* feedback shown on every other card are left unchanged, also those of a
\* question emitted with the same id.
C34_OtherQuestionsUnchanged ==
    [][ev'.op = "select" =>
          /\ Len(questions') = Len(questions)
          /\ Len(cards') = Len(cards)
          /\ \A k \in DOMAIN questions :
                k # ev'.idx =>
                    /\ questions'[k] = questions[k]
                    /\ Feedback(cards'[k]) = Feedback(cards[k])]_vars

\* a question is answered while another question with the same id, not yet
\* answered, is loaded
C34_Witness ==
    /\ ev.op = "select"
    /\ Terminal(questions[ev.idx])
    /\ \E k \in DOMAIN questions :
          /\ k # ev.idx
          /\ questions[k].id = questions[ev.idx].id
          /\ questions[k].status = "unanswered"

\* C35: in every reachable state a MULTIPLE question with status correct
\* has userSelectedKeys equal to correctKeys as a set, and a MULTIPLE
\* question with status incorrect has among its userSelectedKeys exactly one
\* key that is not in correctKeys: the key toggled last.
C35_RecordedKeysOfMultiple ==
    /\ \A i \in DOMAIN questions :
          questions[i].type = "MULTIPLE" =>
              /\ questions[i].status = "correct" =>
                    AsSet(questions[i].userSelectedKeys) = AsSet(questions[i].correctKeys)
              /\ questions[i].status = "incorrect" =>
                    Cardinality(AsSet(questions[i].userSelectedKeys)
                                    \ AsSet(questions[i].correctKeys)) = 1
    /\ (/\ ev.op = "select"
        /\ questions[ev.idx].type = "MULTIPLE"
        /\ ev.pre \in {"unanswered", "ungraded"}
        /\ questions[ev.idx].status = "incorrect")
       => AsSet(questions[ev.idx].userSelectedKeys) \ AsSet(questions[ev.idx].correctKeys)
              = {ev.key}

\* one MULTIPLE question is correct, and the last toggle made another one
\* incorrect while a correct key of it was checked
C35_Witness ==
    /\ \E i \in DOMAIN questions :
          questions[i].type = "MULTIPLE" /\ questions[i].status = "correct"
    /\ Selected("unanswered", "MULTIPLE")
    /\ questions[ev.idx].status = "incorrect"
    /\ Len(questions[ev.idx].userSelectedKeys) >= 2

\* C36: userSelectedKeys is set only while a question is in a terminal
\* status: in every reachable state a question whose status is unanswered or
\* ungraded has no recorded userSelectedKeys, also after the questions or
\* the answers have been uploaded again.
C36_RecordedOnlyWhenTerminal ==
    \A i \in DOMAIN questions :
        questions[i].status \in {"unanswered", "ungraded"} =>
            questions[i].userSelectedKeys = UndefinedSeq

\* the keys of the choices of q
ChoiceKeys(q) == {q.choices[c].key : c \in DOMAIN q.choices}

\* C37: a MULTIPLE question one of whose correct keys is not the key of any
\* of its choices never has status correct; and the toggle that leaves
\* exactly the non-empty correctKeys of an unanswered MULTIPLE question
\* checked makes it correct.
C37_CorrectNeedsEveryKey ==
    /\ \A i \in DOMAIN questions :
          (/\ questions[i].type = "MULTIPLE"
           /\ ~(AsSet(questions[i].correctKeys) \subseteq ChoiceKeys(questions[i])))
          => questions[i].status # "correct"
    /\ (/\ Selected("unanswered", "MULTIPLE")
        /\ questions[ev.idx].correctKeys # <<>>
        /\ CheckedSet(cards[ev.idx]) = AsSet(questions[ev.idx].correctKeys))
       => questions[ev.idx].status = "correct"

\* a MULTIPLE question with two correct keys, both among its choices, is
\* correct with exactly those checked, and a MULTIPLE question with a
\* correct key that none of its choices has was answered
C37_Witness ==
    /\ \E i \in DOMAIN questions :
          /\ questions[i].type = "MULTIPLE"
          /\ questions[i].status = "correct"
          /\ Len(questions[i].correctKeys) >= 2
          /\ CheckedSet(cards[i]) = AsSet(questions[i].correctKeys)
    /\ \E k \in DOMAIN questions :
          /\ questions[k].type = "MULTIPLE"
          /\ ~(AsSet(questions[k].correctKeys) \subseteq ChoiceKeys(questions[k]))
          /\ questions[k].status = "incorrect"

\* the question q as the parser returned it
AsParsed(q) ==
    [q EXCEPT !.status = Undefined, !.explanation = UndefinedSeq,
              !.correctKeys = UndefinedSeq, !.type = Undefined,
              !.userSelectedKeys = UndefinedSeq]

\* what the matcher assigns to a question
Matched(q) ==
    [status |-> q.status, correctKeys |-> q.correctKeys,
     explanation |-> q.explanation, type |-> q.type]

\* C38: matching has run only when a non-empty question list and a non-empty
\* answers map are loaded, and the matched state depends on the loaded
\* questions and answers only, not on which of them was loaded first: the
\* correctKeys, explanation and type of every question are those the
\* matcher gives to the question as parsed for the loaded answers, its
\* status too until a selection ends it, and the counters count the questions and the ended ones.
C38_MatchedStateIgnoresOrder ==
    /\ (cards # <<>> \/ \E i \in DOMAIN questions : questions[i].status # Undefined)
       => (questions # <<>> /\ DOMAIN answersMap # {})
    /\ (questions # <<>> /\ DOMAIN answersMap # {}) =>
          /\ \A i \in DOMAIN questions :
                LET m == Matched(MatchQuestion(AsParsed(questions[i]), answersMap))
                IN  IF Terminal(questions[i])
                    THEN Matched(questions[i]) = [m EXCEPT !.status = questions[i].status]
                    ELSE Matched(questions[i]) = m
          /\ stats.total = Len(questions)
          /\ stats.correct =
                 Cardinality({i \in DOMAIN questions : questions[i].status = "correct"})
          /\ stats.incorrect =
                 Cardinality({i \in DOMAIN questions : questions[i].status = "incorrect"})

\* three questions from files are matched and none is answered yet: one is
\* ungraded, one is MULTIPLE by the number of its correct keys, and the two
\* handlers of the session have both committed
C38_Witness ==
    /\ Len(questions) = 3
    /\ uploads = 2
    /\ inflight = EmptyBag
    /\ Len(cards) = 3
    /\ stats = [total |-> 3, correct |-> 0, incorrect |-> 0]
    /\ \E i \in DOMAIN questions : questions[i].status = "ungraded"
    /\ \E i \in DOMAIN questions :
          /\ questions[i].status = "unanswered"
          /\ questions[i].explicitType = Null
          /\ questions[i].type = "MULTIPLE"

\* C39: for every unanswered MULTIPLE question the set of checked keys is a
\* subset of correctKeys; so after a toggle on such a question that did not
\* end it as incorrect (the completion check was reached), every checked key
\* is a correct key: noIncorrectSelected was true.
C39_CheckedKeysAreCorrect ==
    /\ \A i \in DOMAIN questions :
          (questions[i].type = "MULTIPLE" /\ questions[i].status = "unanswered")
          => CheckedSet(cards[i]) \subseteq AsSet(questions[i].correctKeys)
    /\ (Selected("unanswered", "MULTIPLE") /\ questions[ev.idx].status # "incorrect")
       => \A l \in DOMAIN cards[ev.idx].labels :
              cards[ev.idx].labels[l].checked =>
                  Includes(questions[ev.idx].correctKeys, cards[ev.idx].labels[l].key)

\* the completion check was reached with two correct keys checked and a
\* third one missing: the question is still unanswered
C39_Witness ==
    /\ Selected("unanswered", "MULTIPLE")
    /\ questions[ev.idx].status = "unanswered"
    /\ Cardinality(CheckedSet(cards[ev.idx])) = 2
    /\ Len(questions[ev.idx].correctKeys) = 3
    /\ ev.key \in CheckedSet(cards[ev.idx])
====
